---- MODULE Spec2Model ----
(***************************************************************************)
(* Fold / flip engine of the paper simulator.                              *)
(*                                                                         *)
(* Numbers.  Coordinates are integers (pixels); a point is <<x, y>>.       *)
(* Angles are counted in quarter turns, so cos and sin are exact.  Time is *)
(* counted in milliseconds: an animation's progress is kept as the         *)
(* numerator of progress = elapsed / durationSeconds, so progress >= 1     *)
(* reads progress >= durationSeconds and progress = 1 reads                *)
(* progress = durationSeconds.  Areas are kept doubled (shoelace sum).     *)
(***************************************************************************)
EXTENDS Integers, Sequences, FiniteSets, TLC

VARIABLES paper, undoStack, foldRuntime, flipRuntime, manualFoldQueued,
          deviceFolded, nextFaceId, ev,
          pointers, dragOffset, pinchLastMid, pinchLastAngle,
          heap

\* heap: the Face objects by address, and the addresses the sheet, the animations
\* and the undo stack hold

\* the state of the gesture handlers
gestureVars == <<pointers, dragOffset, pinchLastMid, pinchLastAngle>>

vars == <<paper, undoStack, foldRuntime, flipRuntime, manualFoldQueued,
          deviceFolded, nextFaceId, ev, gestureVars, heap>>

----------------------------------------------------------------------------
(* Bounds of the exploration *)

\* most snapshots on the undo stack, counting operations still in flight
MaxUndo == 2
\* a new build or reset is requested only while the id counter is at most this
MaxFaceId == 5

----------------------------------------------------------------------------
(* Program constants *)

MIN_FACE_AREA == 4
\* 0.46 s and 0.5 s, in milliseconds
FOLD_DURATION_SECONDS == 460
FLIP_DURATION_SECONDS == 500
\* clamp((now - last) / 1000, 0, 0.033), in milliseconds
MaxDt == 33
\* VERTEX_COLLAPSE_THRESHOLD = 0.25 = 1 / 4
VERTEX_COLLAPSE_DEN == 4
\* COLLINEARITY_THRESHOLD = 0.05 = 1 / 20
COLLINEARITY_DEN == 20
FACE_KEY_PRECISION == 100
\* enum FoldSide
Front == 1
Back == 0 - 1
\* createIdCounter(1)
FirstId == 1

\* the viewport-derived rest size of the sheet and the screen centre
PaperW == 6
PaperH == 8
CenterX == 6
CenterY == 6

\* frame deltas a tick can see: none, or the clamp's maximum
DtValues == {0, MaxDt}
\* hinge positions in screen space (options.manualHingePos times the viewport)
HingePoints == {<<CenterX + 1, CenterY>>, <<CenterX + 2, CenterY>>,
                <<CenterX + 3, CenterY + 4>>}
\* hingeInfo.hingeDir, the platform overrides and the manual 90 degree flip
HingeDirs == {<<1, 0>>, <<0, 1>>, <<0 - 1, 0>>}

----------------------------------------------------------------------------
(* math/vec2, math/scalars *)

\* F at the value of v, and at the values of v and w: an argument is computed
\* once, before the call, as a statement computes a local before it is used
Apply1(F(_), v) == CHOOSE r \in {F(x) : x \in {v}} : TRUE
Apply2(F(_, _), v, w) == CHOOSE r \in {F(x, y) : x \in {v}, y \in {w}} : TRUE

Abs(n) == IF n < 0 THEN 0 - n ELSE n
Max2(a, b) == IF a >= b THEN a ELSE b
Min2(a, b) == IF a <= b THEN a ELSE b

add2(a, b) == <<a[1] + b[1], a[2] + b[2]>>
sub2(a, b) == <<a[1] - b[1], a[2] - b[2]>>
mul2(a, k) == <<a[1] * k, a[2] * k>>
dot2(a, b) == a[1] * b[1] + a[2] * b[2]
perp2(v) == <<0 - v[2], v[1]>>

\* cos and sin of q quarter turns
CosQ(q) == CASE q % 4 = 0 -> 1 [] q % 4 = 1 -> 0 [] q % 4 = 2 -> 0 - 1 [] OTHER -> 0
SinQ(q) == CASE q % 4 = 0 -> 0 [] q % 4 = 1 -> 1 [] q % 4 = 2 -> 0 [] OTHER -> 0 - 1

rotate2(v, q) == <<v[1] * CosQ(q) - v[2] * SinQ(q), v[1] * SinQ(q) + v[2] * CosQ(q)>>

\* unit vector of an axis-parallel vector
norm2(v) == LET len == Abs(v[1]) + Abs(v[2])
            IN IF len = 0 THEN <<0, 0>> ELSE <<v[1] \div len, v[2] \div len>>

\* a + (b - a) * t with t = num / den
lerp(a, b, num, den) == a + ((b - a) * num) \div den

----------------------------------------------------------------------------
(* geom/line2 *)

makeLine(p, dir) == [p |-> p, dir |-> norm2(dir), normal |-> perp2(norm2(dir))]

signedDistanceToLine(pt, line) == dot2(sub2(pt, line.p), line.normal)

reflectPoint(pt, line) ==
    sub2(pt, mul2(line.normal, 2 * signedDistanceToLine(pt, line)))

----------------------------------------------------------------------------
(* geom/polygon *)

RECURSIVE SeqMax(_, _)
SeqMax(s, start) == IF s = <<>> THEN start ELSE SeqMax(Tail(s), Max2(start, Head(s)))

RECURSIVE SeqMin(_, _)
SeqMin(s, start) == IF s = <<>> THEN start ELSE SeqMin(Tail(s), Min2(start, Head(s)))

RECURSIVE SeqSum(_)
SeqSum(ss) == IF ss = <<>> THEN 0 ELSE Head(ss) + SeqSum(Tail(ss))

RECURSIVE Flatten(_)
Flatten(ss) == IF ss = <<>> THEN <<>> ELSE Head(ss) \o Flatten(Tail(ss))

Reverse(s) == [i \in 1..Len(s) |-> s[Len(s) + 1 - i]]

DistSq(a, b) == (a[1] - b[1]) * (a[1] - b[1]) + (a[2] - b[2]) * (a[2] - b[2])

\* the loop body of collapseNearbyVertices: p is kept when it is farther than
\* the threshold from the last vertex kept
RECURSIVE CollapseLoop(_, _)
CollapseLoop(poly, out) ==
    IF poly = <<>> THEN out
    ELSE LET p == Head(poly)
             far == \/ out = <<>>
                    \/ VERTEX_COLLAPSE_DEN * VERTEX_COLLAPSE_DEN
                         * DistSq(p, out[Len(out)]) > 1
         IN CollapseLoop(Tail(poly), IF far THEN Append(out, p) ELSE out)

collapseNearbyVertices(poly) ==
    IF Len(poly) < 2 THEN poly
    ELSE LET out == CollapseLoop(poly, <<>>)
         IN IF /\ Len(out) >= 2
               /\ VERTEX_COLLAPSE_DEN * VERTEX_COLLAPSE_DEN
                    * DistSq(out[1], out[Len(out)]) < 1
            THEN SubSeq(out, 1, Len(out) - 1)
            ELSE out

removeCollinearVertices(poly) ==
    IF Len(poly) < 3 THEN poly
    ELSE LET n == Len(poly)
             keep(i) ==
                 LET prev == poly[((i - 2 + n) % n) + 1]
                     curr == poly[i]
                     next == poly[(i % n) + 1]
                     v1 == sub2(curr, prev)
                     v2 == sub2(next, curr)
                     cross == v1[1] * v2[2] - v1[2] * v2[1]
                 IN COLLINEARITY_DEN * Abs(cross) > 1
         IN Flatten([i \in 1..n |-> IF keep(i) THEN <<poly[i]>> ELSE <<>>])

cleanupPoly(poly) ==
    IF Len(poly) < 3 THEN <<>>
    ELSE LET collapsed == collapseNearbyVertices(poly)
         IN IF Len(collapsed) < 3 THEN <<>>
            ELSE LET cleaned == removeCollinearVertices(collapsed)
                 IN IF Len(cleaned) < 3 THEN <<>> ELSE cleaned

\* what one edge a -> b of the polygon contributes to the clipped polygon;
\* the distances are integers and 0 < EPS < 1, so d >= -EPS reads d >= 0
ClipEdge(a, b, line, keepSide) ==
    LET da == signedDistanceToLine(a, line) * keepSide
        db == signedDistanceToLine(b, line) * keepSide
        aIn == da >= 0
        bIn == db >= 0
        cut == <<lerp(a[1], b[1], da, da - db), lerp(a[2], b[2], da, da - db)>>
    IN CASE aIn /\ bIn -> <<b>>
         [] aIn /\ ~bIn -> <<cut>>
         [] ~aIn /\ bIn -> <<cut, b>>
         [] OTHER -> <<>>

clipPolyHalfPlane(poly, line, keepSide) ==
    IF Len(poly) < 3 THEN <<>>
    ELSE LET n == Len(poly)
         IN cleanupPoly(Flatten([i \in 1..n |->
                ClipEdge(poly[i], poly[(i % n) + 1], line, keepSide)]))

RECURSIVE ShoelaceSum(_, _)
ShoelaceSum(poly, i) ==
    IF i > Len(poly) THEN 0
    ELSE LET p == poly[i]
             q == poly[(i % Len(poly)) + 1]
         IN p[1] * q[2] - q[1] * p[2] + ShoelaceSum(poly, i + 1)

\* twice the signed area: the shoelace sum before the final * 0.5
signedPolyArea2(poly) == IF Len(poly) < 3 THEN 0 ELSE ShoelaceSum(poly, 1)

polyArea2(poly) == Abs(signedPolyArea2(poly))

----------------------------------------------------------------------------
(* paper/model *)

toggleSide(s) == IF s = "front" THEN "back" ELSE "front"

cloneFace(f) ==
    [id |-> f.id, verts |-> [i \in 1..Len(f.verts) |-> <<f.verts[i][1], f.verts[i][2]>>],
     up |-> f.up, layer |-> f.layer, outer |-> f.outer]

snapshotPaper(p) ==
    [pos |-> p.pos, rot |-> p.rot, scale |-> p.scale,
     faces |-> [i \in 1..Len(p.faces) |-> cloneFace(p.faces[i])]]

\* the position not restored
restorePaperNoPos(p, snap) ==
    [p EXCEPT !.rot = snap.rot, !.scale = snap.scale,
              !.faces = [i \in 1..Len(snap.faces) |-> cloneFace(snap.faces[i])]]

restorePaper(p, snap) ==
    [p EXCEPT !.pos = snap.pos, !.rot = snap.rot, !.scale = snap.scale,
              !.faces = [i \in 1..Len(snap.faces) |-> cloneFace(snap.faces[i])]]

makeRectFace(id, w, h, up, layer) ==
    LET hw == w \div 2
        hh == h \div 2
    IN [id |-> id,
        verts |-> << <<0 - hw, 0 - hh>>, <<hw, 0 - hh>>, <<hw, hh>>, <<0 - hw, hh>> >>,
        up |-> up, layer |-> layer, outer |-> TRUE]

makePaper(id, x, y, w, h) ==
    [pos |-> <<x, y>>, rot |-> 0, scale |-> 1,
     faces |-> <<makeRectFace(id, w, h, "front", 0)>>,
     baseW |-> w, baseH |-> h]

\* the rectangle pushed on the faces there are instead of replacing them
resetPaperKeepsFaces(p, id) ==
    [p EXCEPT !.faces = Append(@, makeRectFace(id, p.baseW, p.baseH, "front", 0)),
              !.rot = 0, !.scale = 1]

\* the rotation left as it is
resetPaperKeepsRot(p, id) ==
    [p EXCEPT !.faces = <<makeRectFace(id, p.baseW, p.baseH, "front", 0)>>,
              !.scale = 1]

resetPaper(p, id) ==
    [p EXCEPT !.faces = <<makeRectFace(id, p.baseW, p.baseH, "front", 0)>>,
              !.rot = 0, !.scale = 1]

\* paper/space
screenToLocal(p, pt) == rotate2(mul2(sub2(pt, p.pos), 1 \div p.scale), 0 - p.rot)

\* the largest layer of a face list, starting from 0 as the loops do
MaxLayerOf(faces) == SeqMax([i \in 1..Len(faces) |-> faces[i].layer], 0)

----------------------------------------------------------------------------
(* paper/fold *)

determineFoldSide(lineDirScreen, hingeScreen) == Front

\* the loop over paper.faces of buildFoldAnim: face i is clipped twice and every
\* piece that is large enough gets the next id and goes to its side
RECURSIVE BuildPieces(_, _, _, _, _)
BuildPieces(faces, i, lineLocal, foldSide, acc) ==
    IF i > Len(faces) THEN acc
    ELSE LET f == faces[i]
             Piece(id, verts) == [id |-> id, verts |-> verts, up |-> f.up,
                                  layer |-> f.layer, outer |-> f.outer]
             \* a piece pushed on one of the two lists, with the id it takes
             Push(a, moves, verts) ==
                 IF moves
                 THEN [a EXCEPT !.movingFaces = Append(@, Piece(a.nextId, verts)),
                                !.nextId = @ + 1]
                 ELSE [a EXCEPT !.keepFaces = Append(@, Piece(a.nextId, verts)),
                                !.nextId = @ + 1]
             AfterNeg(acc1, neg) ==
                 IF polyArea2(neg) > 2 * MIN_FACE_AREA
                 THEN Push(acc1, foldSide = Back, neg)
                 ELSE acc1
             AfterPos(pos, neg) ==
                 Apply2(AfterNeg,
                        IF polyArea2(pos) > 2 * MIN_FACE_AREA
                        THEN Push(acc, foldSide = Front, pos)
                        ELSE acc,
                        neg)
         IN BuildPieces(faces, i + 1, lineLocal, foldSide,
                        Apply2(AfterPos,
                               clipPolyHalfPlane(f.verts, lineLocal, 1),
                               clipPolyHalfPlane(f.verts, lineLocal, 0 - 1)))

\* the two one-sided reasons exchanged
RejectionReasonSwapped(movingFaces, keepFaces) ==
    CASE movingFaces = <<>> /\ keepFaces = <<>> -> "noIntersection"
      [] movingFaces = <<>> -> "emptyStationarySide"
      [] keepFaces = <<>> -> "emptyMovingSide"
      [] OTHER -> "none"

\* the stationary side not looked at
RejectionReasonMovingOnly(movingFaces, keepFaces) ==
    CASE movingFaces = <<>> /\ keepFaces = <<>> -> "noIntersection"
      [] movingFaces = <<>> -> "emptyMovingSide"
      [] OTHER -> "none"

\* the three early returns of buildFoldAnim, "none" when it goes on to build
RejectionReason(movingFaces, keepFaces) ==
    CASE movingFaces = <<>> /\ keepFaces = <<>> -> "noIntersection"
      [] movingFaces = <<>> -> "emptyMovingSide"
      [] keepFaces = <<>> -> "emptyStationarySide"
      [] OTHER -> "none"

\* the result record, and the id counter as the build leaves it; foldSideIn is
\* input.foldSide, 0 when the caller leaves it out
buildFoldAnim(p, lineDirScreen, hingeScreen, foldSideIn, nextId) ==
    LET foldSide == IF foldSideIn = 0 THEN determineFoldSide(lineDirScreen, hingeScreen)
                    ELSE foldSideIn
        hingeLocal == screenToLocal(p, hingeScreen)
        lineDirLocal == norm2(rotate2(lineDirScreen, 0 - p.rot))
        lineLocal == makeLine(hingeLocal, lineDirLocal)
        foldedLayer == MaxLayerOf(p.faces) + 1
        Result(acc, reason) ==
            [kind |-> IF reason = "none" THEN "built" ELSE "rejected",
             reason |-> reason,
             anim |-> [paperId |-> 1, progress |-> 0,
                       durationSeconds |-> FOLD_DURATION_SECONDS,
                       lineLocal |-> lineLocal, foldSide |-> foldSide,
                       keepFaces |-> acc.keepFaces, movingFaces |-> acc.movingFaces,
                       foldedLayer |-> foldedLayer],
             nextId |-> acc.nextId]
        Decide(acc) == Result(acc, RejectionReason(acc.movingFaces, acc.keepFaces))
    IN Apply1(Decide,
              BuildPieces(p.faces, 1, lineLocal, foldSide,
                  [keepFaces |-> <<>>, movingFaces |-> <<>>, nextId |-> nextId]))

\* the winding left as it is
ensureCCWKeepsWinding(verts) == verts

ensureCCW(verts) == IF signedPolyArea2(verts) < 0 THEN Reverse(verts) ELSE verts

RECURSIVE LexMinLoop(_, _, _)
LexMinLoop(verts, i, minIdx) ==
    IF i > Len(verts) THEN minIdx
    ELSE LET curr == verts[i]
             min == verts[minIdx]
         IN LexMinLoop(verts, i + 1,
                IF curr[2] < min[2] \/ (curr[2] = min[2] /\ curr[1] < min[1])
                THEN i ELSE minIdx)

\* 1-based index of the smallest vertex, by y and then by x
findLexicographicMinIndex(verts) == LexMinLoop(verts, 2, 1)

rotateArray(arr, startIdx) ==
    [i \in 1..Len(arr) |-> arr[((startIdx - 1 + i - 1) % Len(arr)) + 1]]

normalizeVerts(verts) ==
    IF Len(verts) < 2 THEN verts
    ELSE LET ccw == ensureCCW(verts)
         IN rotateArray(ccw, findLexicographicMinIndex(ccw))

\* Math.round(v * 100) / 100, kept as the numerator Math.round(v * 100)
round2(v) == v * FACE_KEY_PRECISION

\* up and layer left out of the key
faceKeyVertsOnly(face) ==
    IF Len(face.verts) = 0 THEN <<>>
    ELSE LET verts == normalizeVerts(face.verts)
         IN [i \in 1..Len(verts) |-> <<round2(verts[i][1]), round2(verts[i][2])>>]

faceKey(face) ==
    IF Len(face.verts) = 0 THEN <<face.up, face.layer, <<>>>>
    ELSE LET verts == normalizeVerts(face.verts)
         IN <<face.up, face.layer,
              [i \in 1..Len(verts) |-> <<round2(verts[i][1]), round2(verts[i][2])>>]>>

RECURSIVE DedupeLoop(_, _, _)
DedupeLoop(faces, seen, out) ==
    IF faces = <<>> THEN out
    ELSE LET key == faceKey(Head(faces))
         IN IF key \in seen THEN DedupeLoop(Tail(faces), seen, out)
            ELSE DedupeLoop(Tail(faces), seen \cup {key}, Append(out, Head(faces)))

dedupeFaces(faces) == DedupeLoop(faces, {}, <<>>)

\* the stacking order kept instead of inverted
FoldedFaceNoInversion(f, anim, maxMovingLayer, id) ==
    [id |-> id,
     verts |-> [i \in 1..Len(f.verts) |-> reflectPoint(f.verts[i], anim.lineLocal)],
     up |-> toggleSide(f.up),
     layer |-> anim.foldedLayer + f.layer,
     outer |-> FALSE]

\* only outer surfaces toggled
FoldedFaceOuterOnly(f, anim, maxMovingLayer, id) ==
    [id |-> id,
     verts |-> [i \in 1..Len(f.verts) |-> reflectPoint(f.verts[i], anim.lineLocal)],
     up |-> IF f.outer THEN toggleSide(f.up) ELSE f.up,
     layer |-> anim.foldedLayer + (maxMovingLayer - f.layer),
     outer |-> FALSE]

\* the moving piece's id kept instead of a new one
FoldedFaceKeepsId(f, anim, maxMovingLayer, id) ==
    [id |-> f.id,
     verts |-> [i \in 1..Len(f.verts) |-> reflectPoint(f.verts[i], anim.lineLocal)],
     up |-> toggleSide(f.up),
     layer |-> anim.foldedLayer + (maxMovingLayer - f.layer),
     outer |-> FALSE]

\* the moving piece's vertices kept where they are
FoldedFaceNotMirrored(f, anim, maxMovingLayer, id) ==
    [id |-> id,
     verts |-> f.verts,
     up |-> toggleSide(f.up),
     layer |-> anim.foldedLayer + (maxMovingLayer - f.layer),
     outer |-> FALSE]

\* the face commitFold makes of moving piece f, which gets the id given
FoldedFace(f, anim, maxMovingLayer, id) ==
    [id |-> id,
     verts |-> [i \in 1..Len(f.verts) |-> reflectPoint(f.verts[i], anim.lineLocal)],
     up |-> toggleSide(f.up),
     layer |-> anim.foldedLayer + (maxMovingLayer - f.layer),
     outer |-> FALSE]

\* the sheet's new faces, and the id counter as the commit leaves it
commitFold(p, anim, nextId) ==
    LET maxMovingLayer == MaxLayerOf(anim.movingFaces)
        moved == [i \in 1..Len(anim.movingFaces) |->
                     FoldedFace(anim.movingFaces[i], anim, maxMovingLayer, nextId + i - 1)]
    IN [paper |-> [p EXCEPT !.faces = dedupeFaces(anim.keepFaces \o moved)],
        nextId |-> nextId + Len(anim.movingFaces)]

----------------------------------------------------------------------------
(* paper/flip *)

buildFlipAnim(p) ==
    [paperId |-> 1, progress |-> 0, durationSeconds |-> FLIP_DURATION_SECONDS,
     originalFaces |-> [i \in 1..Len(p.faces) |-> cloneFace(p.faces[i])],
     maxLayer |-> MaxLayerOf(p.faces)]

AllVerts(faces) == Flatten([i \in 1..Len(faces) |-> faces[i].verts])

\* v mirrored through the line with unit normal (nx, ny) / d through the centre
\* of the bounding box; sx and sy are twice the centre's coordinates
FlipPoint(v, sx, sy, nx, ny, d) ==
    LET dot2x == (2 * v[1] - sx) * nx + (2 * v[2] - sy) * ny
    IN <<v[1] - (dot2x * nx) \div (d * d), v[2] - (dot2x * ny) \div (d * d)>>

\* the outer flags left as they were
commitFlipKeepsOuter(p, anim) ==
    LET vs == AllVerts(p.faces)
        xs == [i \in 1..Len(vs) |-> vs[i][1]]
        ys == [i \in 1..Len(vs) |-> vs[i][2]]
        sx == SeqMin(Tail(xs), Head(xs)) + SeqMax(Tail(xs), Head(xs))
        sy == SeqMin(Tail(ys), Head(ys)) + SeqMax(Tail(ys), Head(ys))
        nx == 0 - CosQ(p.rot)
        ny == SinQ(p.rot)
    IN [p EXCEPT !.faces = [i \in 1..Len(p.faces) |->
           [id |-> p.faces[i].id,
            verts |-> [j \in 1..Len(p.faces[i].verts) |->
                          FlipPoint(p.faces[i].verts[j], sx, sy, nx, ny, 1)],
            up |-> toggleSide(p.faces[i].up),
            layer |-> anim.maxLayer - p.faces[i].layer,
            outer |-> p.faces[i].outer]]]

\* the body of commitFlip, for a sheet rotation with cos = c / d and sin = s / d
FlipFaces(faces, maxLayer, c, s, d) ==
    LET vs == AllVerts(faces)
        xs == [i \in 1..Len(vs) |-> vs[i][1]]
        ys == [i \in 1..Len(vs) |-> vs[i][2]]
        sx == SeqMin(Tail(xs), Head(xs)) + SeqMax(Tail(xs), Head(xs))
        sy == SeqMin(Tail(ys), Head(ys)) + SeqMax(Tail(ys), Head(ys))
        nx == 0 - c
        ny == s
    IN [i \in 1..Len(faces) |->
           [id |-> faces[i].id,
            verts |-> [j \in 1..Len(faces[i].verts) |->
                          FlipPoint(faces[i].verts[j], sx, sy, nx, ny, d)],
            up |-> toggleSide(faces[i].up),
            layer |-> maxLayer - faces[i].layer,
            outer |-> TRUE]]

commitFlip(p, anim) ==
    [p EXCEPT !.faces = FlipFaces(p.faces, anim.maxLayer, CosQ(p.rot), SinQ(p.rot), 1)]

----------------------------------------------------------------------------
(* main: the runtime state and its handlers *)

Idle == [phase |-> "idle"]

\* what the last step did: the outcome of its fold build, and for each commit
\* that ran the animation record, the sheet before it and the sheet after it
\* (dt is the frame delta of a tick, -1 after any other handler); after an undo
\* click whether it popped a snapshot, after a reset click whether it reset
EvNone == [dt |-> 0 - 1, build |-> "none", buildIn |-> <<>>, fold |-> <<>>, flip |-> <<>>,
           undo |-> <<>>, reset |-> <<>>]

Animating(rt) == rt.phase = "animating"

\* only the fold looked at
LockedFoldOnly == Animating(foldRuntime)

\* only the flip looked at
LockedFlipOnly == Animating(flipRuntime)

\* getLockState
Locked == Animating(foldRuntime) \/ Animating(flipRuntime)

B2N(b) == IF b THEN 1 ELSE 0

\* the exploration starts a new operation only while there is room for its snapshot
Budget(cap) ==
    Len(undoStack) + B2N(Animating(foldRuntime)) + B2N(Animating(flipRuntime))
        + B2N(manualFoldQueued) < cap

resolveFoldSide(hingeDir, isStable, screenAngle, invert) ==
    LET hingeDirNatural == rotate2(hingeDir, screenAngle)
        foldLeftToRight == IF isStable THEN 1 ELSE 0 - 1
        directionSign == IF invert THEN 0 - 1 ELSE 1
        isVerticalHinge == Abs(hingeDirNatural[2]) >= Abs(hingeDirNatural[1])
        signedMove == foldLeftToRight * directionSign
        desiredMoveNatural ==
            IF isVerticalHinge
            THEN (IF signedMove > 0 THEN <<0 - 1, 0>> ELSE <<1, 0>>)
            ELSE (IF signedMove > 0 THEN <<0, 0 - 1>> ELSE <<0, 1>>)
        desiredMove == rotate2(desiredMoveNatural, 0 - screenAngle)
        normal == perp2(norm2(hingeDir))
    IN IF dot2(desiredMove, normal) >= 0 THEN Front ELSE Back

\* the face objects are followed by address only where their identity is the
\* question; everywhere else faces are values and the object graph is left out
NoHeap == <<>>

\* no pointer is down and no gesture is under way
GestureInit ==
    /\ pointers = <<>>
    /\ dragOffset = <<>>
    /\ pinchLastMid = <<>>
    /\ pinchLastAngle = 0

Init ==
    /\ paper = makePaper(FirstId, CenterX, CenterY, PaperW, PaperH)
    /\ nextFaceId = FirstId + 1
    /\ undoStack = <<>>
    /\ foldRuntime = Idle
    /\ flipRuntime = Idle
    /\ manualFoldQueued = FALSE
    /\ deviceFolded = FALSE
    /\ ev = EvNone
    /\ GestureInit
    /\ heap = NoHeap

\* activeAnim.progress += dt / activeAnim.durationSeconds
AdvanceProgress(anim, dt) == [anim EXCEPT !.progress = @ + dt]

\* activeAnim.progress >= 1
ProgressDone(anim) == anim.progress >= anim.durationSeconds

\* the clamp forgotten
ClampProgressMissing(anim) == anim

\* activeAnim.progress = 1
ClampProgress(anim) == [anim EXCEPT !.progress = anim.durationSeconds]

\* the result's kind not looked at
FoldRuntimeAfterBuildAnyResult(buildResult, activeHinge, activeHingeDir) ==
    IF buildResult.kind # "none"
    THEN [phase |-> "animating", anim |-> buildResult.anim,
          hinge |-> activeHinge, hingeDir |-> activeHingeDir]
    ELSE foldRuntime

\* the fold runtime after the build of a frame
FoldRuntimeAfterBuild(buildResult, activeHinge, activeHingeDir) ==
    IF buildResult.kind = "built"
    THEN [phase |-> "animating", anim |-> buildResult.anim,
          hinge |-> activeHinge, hingeDir |-> activeHingeDir]
    ELSE foldRuntime

\* the result of a frame that attempts no build
NoBuild == [kind |-> "none", reason |-> "none"]

\* the request left standing
QueueAfterTickKept(queued, foldedNow) == queued

\* if (manualFoldQueued && foldedNow) manualFoldQueued = false
QueueAfterTick(queued, foldedNow) == IF queued /\ foldedNow THEN FALSE ELSE queued

\* one frame: dt is the clamped frame delta, postureFolded the posture signal,
\* activeHingeDir / activeHinge / foldSide what the frame computed from the options
\* and the sensors
TickStep(dt, postureFolded, activeHingeDir, activeHinge, foldSide) ==
    LET foldedNow == postureFolded \/ manualFoldQueued
        attempt == foldRuntime.phase = "idle" /\ foldedNow /\ ~deviceFolded
    IN
    \E buildResult \in {IF attempt
                        THEN buildFoldAnim(paper, activeHingeDir, activeHinge,
                                           foldSide, nextFaceId)
                        ELSE NoBuild} :
    \E fr1 \in {FoldRuntimeAfterBuild(buildResult, activeHinge, activeHingeDir)} :
    LET id1 == IF attempt THEN buildResult.nextId ELSE nextFaceId
        \* the fold advances and, at the end, commits
        foldDone == Animating(fr1) /\ ProgressDone(AdvanceProgress(fr1.anim, dt))
    IN
    \E foldAnim \in {IF foldDone THEN ClampProgress(AdvanceProgress(fr1.anim, dt))
                     ELSE <<>>} :
    \E folded \in {IF foldDone THEN commitFold(paper, foldAnim, id1)
                   ELSE [paper |-> paper, nextId |-> id1]} :
    LET paper2 == folded.paper
        undo2 == IF foldDone THEN Append(undoStack, snapshotPaper(paper)) ELSE undoStack
        fr2 == IF foldDone THEN Idle
               ELSE IF Animating(fr1)
                    THEN [fr1 EXCEPT !.anim = AdvanceProgress(fr1.anim, dt)]
               ELSE fr1
        \* the flip advances and, at the end, commits
        flipDone == Animating(flipRuntime)
                       /\ ProgressDone(AdvanceProgress(flipRuntime.anim, dt))
    IN
    \E flipAnim \in {IF flipDone
                     THEN ClampProgress(AdvanceProgress(flipRuntime.anim, dt))
                     ELSE <<>>} :
    \E paper3 \in {IF flipDone THEN commitFlip(paper2, flipAnim) ELSE paper2} :
       /\ manualFoldQueued' = QueueAfterTick(manualFoldQueued, foldedNow)
       /\ deviceFolded' = foldedNow
       /\ foldRuntime' = fr2
       /\ flipRuntime' =
              IF flipDone THEN Idle
              ELSE IF Animating(flipRuntime)
                   THEN [flipRuntime EXCEPT !.anim = AdvanceProgress(flipRuntime.anim, dt)]
              ELSE flipRuntime
       /\ paper' = paper3
       /\ undoStack' = IF flipDone THEN Append(undo2, snapshotPaper(paper2)) ELSE undo2
       /\ nextFaceId' = folded.nextId
       /\ UNCHANGED <<gestureVars, heap>>
       /\ ev' = [dt |-> dt,
                 build |-> IF buildResult.kind = "rejected" THEN buildResult.reason
                           ELSE buildResult.kind,
                 buildIn |-> IF attempt
                             THEN <<[paper |-> paper, lineDirScreen |-> activeHingeDir,
                                     hingeScreen |-> activeHinge, foldSide |-> foldSide,
                                     result |-> buildResult]>>
                             ELSE <<>>,
                 fold |-> IF foldDone
                          THEN <<[anim |-> foldAnim, before |-> paper, after |-> paper2]>>
                          ELSE <<>>,
                 flip |-> IF flipDone
                          THEN <<[anim |-> flipAnim, before |-> paper2, after |-> paper3]>>
                          ELSE <<>>,
                 undo |-> <<>>, reset |-> <<>>]

\* tick, with the frame deltas, posture signals and hinges the exploration feeds it
Tick(cap, dts, postures, hingeDirs, hingePoints) ==
    \E dt \in dts :
    \E postureFolded \in (IF Budget(cap) /\ nextFaceId <= MaxFaceId
                          THEN postures ELSE {FALSE}) :
    \E builds \in {foldRuntime.phase = "idle" /\ (postureFolded \/ manualFoldQueued)
                       /\ ~deviceFolded} :
    \* the hinge and the sensors matter only to a frame that builds
    \E activeHingeDir \in (IF builds THEN hingeDirs ELSE {<<1, 0>>}),
       activeHinge \in (IF builds THEN hingePoints ELSE {<<CenterX, CenterY>>}),
       isStable \in (IF builds THEN BOOLEAN ELSE {TRUE}),
       invert \in (IF builds THEN BOOLEAN ELSE {FALSE}) :
        TickStep(dt, postureFolded, activeHingeDir, activeHinge,
                 resolveFoldSide(activeHingeDir, isStable, 0, invert))

\* Space / Enter / the fold button
FoldRequest(cap) ==
    /\ Budget(cap)
    /\ nextFaceId <= MaxFaceId
    /\ manualFoldQueued' = TRUE
    /\ ev' = EvNone
    /\ UNCHANGED <<paper, undoStack, foldRuntime, flipRuntime, deviceFolded, nextFaceId,
                   gestureVars, heap>>

\* flipPaperBtn.onclick, also reached by the F key
FlipClick(cap) ==
    /\ Locked \/ Budget(cap)
    /\ flipRuntime' = IF Locked THEN flipRuntime
                      ELSE [phase |-> "animating", anim |-> buildFlipAnim(paper)]
    /\ ev' = EvNone
    /\ UNCHANGED <<paper, undoStack, foldRuntime, manualFoldQueued, deviceFolded,
                   nextFaceId, gestureVars, heap>>

\* undoBtn.onclick
UndoClick ==
    /\ IF Locked \/ undoStack = <<>>
       THEN UNCHANGED <<paper, undoStack>>
       ELSE /\ paper' = restorePaper(paper, undoStack[Len(undoStack)])
            /\ undoStack' = SubSeq(undoStack, 1, Len(undoStack) - 1)
    /\ ev' = [EvNone EXCEPT !.undo = <<~Locked /\ undoStack # <<>> >>]
    /\ UNCHANGED <<foldRuntime, flipRuntime, manualFoldQueued, deviceFolded, nextFaceId,
                   gestureVars, heap>>

\* resetActiveBtn.onclick, also reached by the R key
ResetClick(cap) ==
    /\ Locked \/ (Budget(cap) /\ nextFaceId <= MaxFaceId)
    /\ IF Locked
       THEN UNCHANGED <<paper, undoStack, nextFaceId>>
       ELSE /\ undoStack' = Append(undoStack, snapshotPaper(paper))
            /\ paper' = [resetPaper([paper EXCEPT !.baseW = PaperW, !.baseH = PaperH],
                                    nextFaceId)
                           EXCEPT !.pos = <<CenterX, CenterY>>]
            /\ nextFaceId' = nextFaceId + 1
    /\ ev' = [EvNone EXCEPT !.reset = <<~Locked>>]
    /\ UNCHANGED <<foldRuntime, flipRuntime, manualFoldQueued, deviceFolded,
                   gestureVars, heap>>

Next ==
    \/ Tick(MaxUndo, DtValues, BOOLEAN, HingeDirs, HingePoints)
    \/ FoldRequest(MaxUndo)
    \/ FlipClick(MaxUndo)
    \/ UndoClick
    \/ ResetClick(MaxUndo)

Spec == Init /\ [][Next]_vars

----------------------------------------------------------------------------
(* input/gestures: the pointer handlers, and the program with them *)

\* most snapshots on the undo stack in the exploration with gestures
MaxUndoUI == 2
\* a gesture is explored while it leaves the sheet at most this far to the right of
\* the centre of the screen, and within this many quarter turns of upright
MaxShift == 2
MaxRot == 2

PointerIds == {1, 2}
\* the one pointer of the exploration of the whole program
PointerIdsUI == {1}
\* where a pointer event can be: two places on one horizontal line, an even number
\* of pixels apart so that the midpoint of a pinch is a pixel too
PointerPositions == {<<CenterX, CenterY>>, <<CenterX + 2, CenterY>>}

\* Math.atan2(v.y, v.x) of an axis-parallel vector, in quarter turns
Atan2Q(v) ==
    CASE v[2] = 0 /\ v[1] >= 0 -> 0
      [] v[2] = 0 /\ v[1] < 0 -> 2
      [] v[2] > 0 -> 1
      [] OTHER -> 0 - 1

\* the pointers map keeps its entries in the order they were first set
HasPointer(id) == \E i \in 1..Len(pointers) : pointers[i].id = id

\* pointers.set(id, { pos })
SetPointer(id, pos) ==
    IF HasPointer(id)
    THEN [i \in 1..Len(pointers) |->
             IF pointers[i].id = id THEN [id |-> id, pos |-> pos] ELSE pointers[i]]
    ELSE Append(pointers, [id |-> id, pos |-> pos])

\* pointers.delete(id)
DeletePointer(id) ==
    Flatten([i \in 1..Len(pointers) |->
                IF pointers[i].id = id THEN <<>> ELSE <<pointers[i]>>])

\* mul2(add2(pts[0], pts[1]), 0.5)
PinchMid(pts) == <<(pts[1].pos[1] + pts[2].pos[1]) \div 2,
                   (pts[1].pos[2] + pts[2].pos[2]) \div 2>>

\* Math.atan2(pts[1].y - pts[0].y, pts[1].x - pts[0].x)
PinchAngle(pts) == Atan2Q(sub2(pts[2].pos, pts[1].pos))

\* the sheet stays where the exploration follows it
InReach(p) ==
    /\ p.pos[1] - CenterX \in 0..MaxShift
    /\ p.pos[2] - CenterY \in 0..MaxShift
    /\ Abs(p.rot) <= MaxRot

\* onPointerDown, the Alt key not held
PointerDown(id, pos) ==
    /\ ~HasPointer(id)
    /\ ev' = EvNone
    /\ UNCHANGED <<paper, undoStack, foldRuntime, flipRuntime, manualFoldQueued,
                   deviceFolded, nextFaceId, heap>>
    /\ IF Locked
       THEN UNCHANGED gestureVars
       ELSE \E pts \in {SetPointer(id, pos)} :
            /\ pointers' = pts
            /\ IF Len(pts) = 2
               THEN /\ pinchLastMid' = <<PinchMid(pts)>>
                    /\ pinchLastAngle' = PinchAngle(pts)
                    /\ dragOffset' = <<>>
               ELSE /\ dragOffset' = <<sub2(pos, paper.pos)>>
                    /\ UNCHANGED <<pinchLastMid, pinchLastAngle>>

\* a pinch that also zooms the sheet
PinchedPaperZoomed(p, mid, dAng) ==
    LET moved == add2(p.pos, sub2(mid, pinchLastMid[1]))
    IN [p EXCEPT !.pos = add2(mid, rotate2(sub2(moved, mid), dAng)),
                 !.rot = @ + dAng, !.scale = @ * 2]

\* the sheet after a pinch step: moved with the midpoint, then turned about it
PinchedPaper(p, mid, dAng) ==
    LET moved == add2(p.pos, sub2(mid, pinchLastMid[1]))
    IN [p EXCEPT !.pos = add2(mid, rotate2(sub2(moved, mid), dAng)),
                 !.rot = @ + dAng]

\* the sheet after a drag step
DraggedPaper(p, pos) == [p EXCEPT !.pos = sub2(pos, dragOffset[1])]

\* onPointerMove
PointerMove(id, pos) ==
    /\ ev' = EvNone
    /\ UNCHANGED <<undoStack, foldRuntime, flipRuntime, manualFoldQueued,
                   deviceFolded, nextFaceId, heap>>
    /\ IF ~HasPointer(id)
       THEN UNCHANGED <<paper, gestureVars>>
       ELSE \E pts \in {SetPointer(id, pos)} :
            /\ pointers' = pts
            /\ IF Locked
               THEN UNCHANGED <<paper, dragOffset, pinchLastMid, pinchLastAngle>>
               ELSE IF Len(pts) = 2 /\ pinchLastMid # <<>>
               THEN LET mid == PinchMid(pts)
                        ang == PinchAngle(pts)
                        d0 == ang - pinchLastAngle
                        dAng == IF d0 > 2 THEN d0 - 4
                                ELSE IF d0 < 0 - 2 THEN d0 + 4 ELSE d0
                    IN /\ paper' = PinchedPaper(paper, mid, dAng)
                       /\ pinchLastMid' = <<mid>>
                       /\ pinchLastAngle' = ang
                       /\ UNCHANGED dragOffset
               ELSE /\ paper' = IF dragOffset # <<>> THEN DraggedPaper(paper, pos)
                                ELSE paper
                    /\ UNCHANGED <<dragOffset, pinchLastMid, pinchLastAngle>>
    /\ InReach(paper')

\* onPointerUp
PointerUp(id) ==
    /\ pointers' = DeletePointer(id)
    /\ pinchLastMid' = IF Len(pointers') < 2 THEN <<>> ELSE pinchLastMid
    /\ dragOffset' = <<>>
    /\ ev' = EvNone
    /\ UNCHANGED <<paper, undoStack, foldRuntime, flipRuntime, manualFoldQueued,
                   deviceFolded, nextFaceId, pinchLastAngle, heap>>

\* onPointerCancel
PointerCancel ==
    /\ pointers' = <<>>
    /\ dragOffset' = <<>>
    /\ pinchLastMid' = <<>>
    /\ ev' = EvNone
    /\ UNCHANGED <<paper, undoStack, foldRuntime, flipRuntime, manualFoldQueued,
                   deviceFolded, nextFaceId, pinchLastAngle, heap>>

\* hinge of the exploration with gestures
HingeDirsUI == {<<0, 1>>}
HingePointsUI == {<<CenterX + 1, CenterY>>}

\* a frame whose delta is positive, the device lying open: folds are asked for by
\* key or button
TickUI == Tick(MaxUndoUI, {MaxDt}, {FALSE}, HingeDirsUI, HingePointsUI)

Gesture(ids) ==
    \/ \E id \in ids, pos \in PointerPositions : PointerDown(id, pos)
    \/ \E id \in ids, pos \in PointerPositions : PointerMove(id, pos)
    \/ \E id \in ids : PointerUp(id)
    \/ PointerCancel

NextUI ==
    \/ TickUI
    \/ FoldRequest(MaxUndoUI)
    \/ FlipClick(MaxUndoUI)
    \/ UndoClick
    \/ ResetClick(MaxUndoUI)
    \/ Gesture(PointerIdsUI)

SpecUI == Init /\ [][NextUI]_vars

\* the gesture handlers alone, with two pointers: drags and pinches
SpecGesture == Init /\ [][Gesture(PointerIds)]_vars

\* a frame taken while an animation is in flight
AnimationFrame == (Animating(foldRuntime) \/ Animating(flipRuntime)) /\ TickUI

\* tick asks for the next frame at the end of every frame, so frames keep coming:
\* weak fairness of AnimationFrame.  Tick has no guard and a positive delta moves
\* the progress of whatever is in flight, so a frame that changes the state can be
\* taken in exactly the states with an animation in flight, and
\* WF_vars(AnimationFrame) is written with that for ENABLED <<AnimationFrame>>_vars
FrameFairness ==
    \/ []<>~(Animating(foldRuntime) \/ Animating(flipRuntime))
    \/ []<><<AnimationFrame>>_vars

FairSpecUI == SpecUI /\ FrameFairness

----------------------------------------------------------------------------
(* buildFoldAnim alone, on a family of sheets *)

\* hinge positions that include one far outside the sheet
BuildHingePoints == HingePoints \cup {<<CenterX + 5, CenterY + 6>>}

FreshSheets ==
    {[makePaper(FirstId, x, CenterY, PaperW, PaperH) EXCEPT !.rot = q] :
        x \in {CenterX, CenterX + 1}, q \in 0..3}

\* the id counter after the faces of sheet p were made
NextIdAfter(p) == SeqMax([i \in 1..Len(p.faces) |-> p.faces[i].id], 0) + 1

\* the sheet p after one fold, p itself when the build is rejected
FoldOnce(p, lineDirScreen, hingeScreen, foldSide) ==
    LET Commit(r) == IF r.kind = "built" THEN commitFold(p, r.anim, r.nextId).paper
                     ELSE p
    IN Apply1(Commit,
              buildFoldAnim(p, lineDirScreen, hingeScreen, foldSide, NextIdAfter(p)))

\* the sheet folded in half three times, which leaves eight layers so small that a
\* further cut leaves no piece above the minimum area
FoldedSmall ==
    LET p0 == makePaper(FirstId, CenterX, CenterY, PaperW, PaperH)
        p1 == FoldOnce(p0, <<1, 0>>, <<CenterX, CenterY>>, Front)
        p2 == FoldOnce(p1, <<0, 1>>, <<CenterX, CenterY>>, Front)
    IN FoldOnce(p2, <<1, 0>>, <<CenterX, CenterY - 2>>, Front)

BuildSheets ==
    FreshSheets \cup {FoldedSmall} \cup
    {FoldOnce(p, d, h, s) : p \in FreshSheets, d \in HingeDirs, h \in HingePoints,
                            s \in {Front, Back}}

InitBuild ==
    /\ paper \in BuildSheets
    /\ nextFaceId = NextIdAfter(paper)
    /\ undoStack = <<>>
    /\ foldRuntime = Idle
    /\ flipRuntime = Idle
    /\ manualFoldQueued = FALSE
    /\ deviceFolded = FALSE
    /\ ev = EvNone
    /\ GestureInit
    /\ heap = NoHeap

BuildOnly ==
    /\ ev.buildIn = <<>>
    /\ \E lineDirScreen \in HingeDirs, hingeScreen \in BuildHingePoints,
          foldSideIn \in {Front, Back, 0} :
          \E r \in {buildFoldAnim(paper, lineDirScreen, hingeScreen, foldSideIn,
                                   nextFaceId)} :
             /\ ev' = [EvNone EXCEPT
                         !.build = IF r.kind = "rejected" THEN r.reason ELSE r.kind,
                         !.buildIn = <<[paper |-> paper, lineDirScreen |-> lineDirScreen,
                                        hingeScreen |-> hingeScreen,
                                        foldSide |-> r.anim.foldSide, result |-> r]>>]
             /\ nextFaceId' = r.nextId
    /\ UNCHANGED <<paper, undoStack, foldRuntime, flipRuntime, manualFoldQueued,
                   deviceFolded, gestureVars, heap>>

SpecBuild == InitBuild /\ [][BuildOnly]_vars

----------------------------------------------------------------------------
(* The builders and committers applied to sheets, one whole operation a step *)

\* a fold or a flip is applied only while the id counter is at most this
MaxSheetId == 6

InitSheet == InitBuild

\* buildFoldAnim and, when it built, commitFold
ApplyFold ==
    /\ nextFaceId <= MaxSheetId
    /\ \E lineDirScreen \in HingeDirs, hingeScreen \in BuildHingePoints,
          foldSideIn \in {Front, Back} :
          \E r \in {buildFoldAnim(paper, lineDirScreen, hingeScreen, foldSideIn,
                                   nextFaceId)} :
          \E folded \in {IF r.kind = "built" THEN commitFold(paper, r.anim, r.nextId)
                         ELSE [paper |-> paper, nextId |-> r.nextId]} :
             /\ paper' = folded.paper
             /\ nextFaceId' = folded.nextId
             /\ ev' = [EvNone EXCEPT
                         !.build = IF r.kind = "rejected" THEN r.reason ELSE r.kind,
                         !.buildIn = <<[paper |-> paper, lineDirScreen |-> lineDirScreen,
                                        hingeScreen |-> hingeScreen,
                                        foldSide |-> r.anim.foldSide, result |-> r]>>,
                         !.fold = IF r.kind = "built"
                                  THEN <<[anim |-> r.anim, before |-> paper,
                                          after |-> folded.paper]>>
                                  ELSE <<>>]
    /\ UNCHANGED <<undoStack, foldRuntime, flipRuntime, manualFoldQueued,
                   deviceFolded, gestureVars, heap>>

\* buildFlipAnim and commitFlip
ApplyFlip ==
    /\ nextFaceId <= MaxSheetId \/ paper = FoldedSmall
    /\ \E anim \in {buildFlipAnim(paper)} :
       \E flipped \in {commitFlip(paper, anim)} :
          /\ paper' = flipped
          /\ ev' = [EvNone EXCEPT
                      !.flip = <<[anim |-> anim, before |-> paper, after |-> flipped]>>]
    /\ UNCHANGED <<undoStack, foldRuntime, flipRuntime, manualFoldQueued,
                   deviceFolded, nextFaceId, gestureVars, heap>>

NextSheet == ApplyFold \/ ApplyFlip

SpecSheet == InitSheet /\ [][NextSheet]_vars

----------------------------------------------------------------------------
(* commitFlip applied twice, also at sheet rotations between the quarter turns *)

\* lengths of this section are counted in 1 / FlipUnit of a pixel, which keeps two
\* mirrorings at the rotations of FlipRotations in the integers
FlipUnit == 1250

\* sheet rotations <<c, s, d>> with cos = c / d and sin = s / d: the four quarter
\* turns, and two rotations between them (about 53 and 37 degrees)
FlipRotations ==
    {<<1, 0, 1>>, <<0, 1, 1>>, <<0 - 1, 0, 1>>, <<0, 0 - 1, 1>>, <<3, 4, 5>>, <<4, 3, 5>>}

ScaleFaces(faces, k) ==
    [i \in 1..Len(faces) |->
        [faces[i] EXCEPT !.verts = [j \in 1..Len(@) |-> mul2(@[j], k)]]]

\* the fresh sheet with one corner folded over along the line x + y = 3, as a fold
\* leaves it when the sheet is turned 45 degrees against the hinge: the pentagon
\* that stays, and the corner triangle (3,0) (3,4) (-1,4) mirrored onto it
CornerFolded ==
    [makePaper(FirstId, CenterX, CenterY, PaperW, PaperH) EXCEPT
        !.faces = << [id |-> 2,
                      verts |-> << <<0 - 3, 0 - 4>>, <<3, 0 - 4>>, <<3, 0>>,
                                   <<0 - 1, 4>>, <<0 - 3, 4>> >>,
                      up |-> "front", layer |-> 0, outer |-> TRUE],
                     [id |-> 4,
                      verts |-> << <<3, 0>>, <<0 - 1, 0>>, <<0 - 1, 4>> >>,
                      up |-> "back", layer |-> 1, outer |-> FALSE] >>]

FlipSheets ==
    {[p EXCEPT !.faces = ScaleFaces(@, FlipUnit)] : p \in BuildSheets \cup {CornerFolded}}

InitFlip ==
    /\ paper \in FlipSheets
    /\ nextFaceId = NextIdAfter(paper)
    /\ undoStack = <<>>
    /\ foldRuntime = Idle
    /\ flipRuntime = Idle
    /\ manualFoldQueued = FALSE
    /\ deviceFolded = FALSE
    /\ ev = EvNone
    /\ GestureInit
    /\ heap = NoHeap

\* the sheet, turned to rotation r, flipped and flipped again: buildFlipAnim and
\* commitFlip, twice
FlipTwice ==
    /\ ev.flip = <<>>
    /\ \E r \in FlipRotations :
       \E once \in {FlipFaces(paper.faces, MaxLayerOf(paper.faces), r[1], r[2], r[3])} :
       \E twice \in {FlipFaces(once, MaxLayerOf(once), r[1], r[2], r[3])} :
          /\ paper' = [paper EXCEPT !.faces = twice]
          /\ ev' = [EvNone EXCEPT
                      !.flip = <<[rotation |-> r, before |-> paper.faces,
                                  once |-> once, after |-> twice]>>]
    /\ UNCHANGED <<undoStack, foldRuntime, flipRuntime, manualFoldQueued,
                   deviceFolded, nextFaceId, gestureVars, heap>>

SpecFlip == InitFlip /\ [][FlipTwice]_vars

----------------------------------------------------------------------------
(* clipPolyHalfPlane applied to polygons with vertices between the pixels *)

\* lengths of this section are counted in 1 / ClipUnit of a pixel, so that vertices
\* can lie as close together as the thresholds of cleanupPoly
ClipUnit == 4

\* collapseNearbyVertices with lengths in 1 / u of a pixel
RECURSIVE CollapseLoopU(_, _, _)
CollapseLoopU(poly, out, u) ==
    IF poly = <<>> THEN out
    ELSE LET p == Head(poly)
             far == \/ out = <<>>
                    \/ VERTEX_COLLAPSE_DEN * VERTEX_COLLAPSE_DEN
                         * DistSq(p, out[Len(out)]) > u * u
         IN CollapseLoopU(Tail(poly), IF far THEN Append(out, p) ELSE out, u)

ClosesLoopU(out, u) ==
    /\ Len(out) >= 2
    /\ VERTEX_COLLAPSE_DEN * VERTEX_COLLAPSE_DEN * DistSq(out[1], out[Len(out)]) < u * u

collapseNearbyVerticesU(poly, u) ==
    IF Len(poly) < 2 THEN poly
    ELSE LET Close(out) == IF ClosesLoopU(out, u) THEN SubSeq(out, 1, Len(out) - 1)
                           ELSE out
         IN Apply1(Close, CollapseLoopU(poly, <<>>, u))

\* removeCollinearVertices with lengths in 1 / u of a pixel
removeCollinearVerticesU(poly, u) ==
    IF Len(poly) < 3 THEN poly
    ELSE LET n == Len(poly)
             keep(i) ==
                 LET v1 == sub2(poly[i], poly[((i - 2 + n) % n) + 1])
                     v2 == sub2(poly[(i % n) + 1], poly[i])
                 IN COLLINEARITY_DEN * Abs(v1[1] * v2[2] - v1[2] * v2[1]) > u * u
         IN Flatten([i \in 1..n |-> IF keep(i) THEN <<poly[i]>> ELSE <<>>])

\* cleanupPoly with lengths in 1 / u of a pixel
cleanupPolyU(poly, u) ==
    IF Len(poly) < 3 THEN <<>>
    ELSE LET Cleaned(collapsed) ==
                 IF Len(collapsed) < 3 THEN <<>>
                 ELSE LET Checked(cleaned) == IF Len(cleaned) < 3 THEN <<>> ELSE cleaned
                      IN Apply1(Checked, removeCollinearVerticesU(collapsed, u))
         IN Apply1(Cleaned, collapseNearbyVerticesU(poly, u))

\* the vertices the edge loop of clipPolyHalfPlane puts out, before cleanupPoly
ClipOut(poly, line, keepSide) ==
    IF Len(poly) < 3 THEN <<>>
    ELSE Flatten([i \in 1..Len(poly) |->
             ClipEdge(poly[i], poly[(i % Len(poly)) + 1], line, keepSide)])

\* clipPolyHalfPlane with lengths in 1 / u of a pixel
clipPolyHalfPlaneU(poly, line, keepSide, u) ==
    IF Len(poly) < 3 THEN <<>> ELSE cleanupPolyU(ClipOut(poly, line, keepSide), u)

\* the vertex list started at its k-th vertex
RotateTo(verts, k) == [i \in 1..Len(verts) |-> verts[((i + k - 2) % Len(verts)) + 1]]

\* a 10 x 80 px rectangle, the trapezoid a diagonal fold leaves of a sheet, and an
\* L-shaped (simple, not convex) outline, in 1 / ClipUnit of a pixel
ClipOutlines ==
    { << <<0, 0>>, <<40, 0>>, <<40, 320>>, <<0, 320>> >>,
      << <<0, 0>>, <<40, 0>>, <<40, 320>>, <<0 - 40, 320>> >>,
      << <<0, 0>>, <<40, 0>>, <<40, 160>>, <<16, 160>>, <<16, 320>>, <<0, 320>> >> }

\* the outlines in both windings and from every starting vertex
ClipPolygons ==
    UNION {{RotateTo(o, k) : k \in 1..Len(o)} \cup {RotateTo(Reverse(o), k) : k \in 1..Len(o)} :
             o \in ClipOutlines}

\* vertical and horizontal lines, in both directions; the horizontal ones lie where
\* they meet the slanted edge of the trapezoid at a multiple of the unit
ClipLines ==
    {makeLine(<<x, 0>>, d) : x \in (0 - 2)..6 \cup {16, 20, 39, 40, 41},
                             d \in {<<0, 1>>, <<0, 0 - 1>>}}
      \cup {makeLine(<<0, y>>, d) : y \in {0 - 8, 0, 8, 160, 312, 320, 328},
                                    d \in {<<1, 0>>, <<0 - 1, 0>>}}

InitClip ==
    /\ paper \in {[makePaper(FirstId, CenterX, CenterY, PaperW, PaperH) EXCEPT
                      !.faces[1].verts = poly] : poly \in ClipPolygons}
    /\ nextFaceId = FirstId + 1
    /\ undoStack = <<>>
    /\ foldRuntime = Idle
    /\ flipRuntime = Idle
    /\ manualFoldQueued = FALSE
    /\ deviceFolded = FALSE
    /\ ev = EvNone
    /\ GestureInit
    /\ heap = NoHeap

\* the two clips buildFoldAnim makes of a face, for one line
ClipBoth ==
    /\ ev.buildIn = <<>>
    /\ \E line \in ClipLines :
          ev' = [EvNone EXCEPT
                   !.buildIn = <<[poly |-> paper.faces[1].verts, line |-> line,
                                  outPos |-> ClipOut(paper.faces[1].verts, line, 1),
                                  outNeg |-> ClipOut(paper.faces[1].verts, line, 0 - 1),
                                  pos |-> clipPolyHalfPlaneU(paper.faces[1].verts, line,
                                                             1, ClipUnit),
                                  neg |-> clipPolyHalfPlaneU(paper.faces[1].verts, line,
                                                             0 - 1, ClipUnit)]>>]
    /\ UNCHANGED <<paper, undoStack, foldRuntime, flipRuntime, manualFoldQueued,
                   deviceFolded, nextFaceId, gestureVars, heap>>

SpecClip == InitClip /\ [][ClipBoth]_vars

----------------------------------------------------------------------------
(* faceKey and dedupeFaces applied to a face and the same face listed otherwise *)

InitKey ==
    /\ paper \in BuildSheets \cup {CornerFolded}
    /\ nextFaceId = NextIdAfter(paper)
    /\ undoStack = <<>>
    /\ foldRuntime = Idle
    /\ flipRuntime = Idle
    /\ manualFoldQueued = FALSE
    /\ deviceFolded = FALSE
    /\ ev = EvNone
    /\ GestureInit
    /\ heap = NoHeap

\* a face of the sheet, and a second face with its own id that lists the same
\* vertices from the k-th on, in the same or in the opposite direction; their keys,
\* and what dedupeFaces leaves of the two
KeyOfVariant ==
    /\ ev.buildIn = <<>>
    /\ \E i \in 1..Len(paper.faces) :
       \E k \in 1..Len(paper.faces[i].verts), reversed \in BOOLEAN :
       \E g \in {[paper.faces[i] EXCEPT
                     !.id = nextFaceId,
                     !.verts = RotateTo(IF reversed THEN Reverse(@) ELSE @, k)]} :
          ev' = [EvNone EXCEPT
                   !.buildIn = <<[face |-> paper.faces[i], variant |-> g,
                                  reversed |-> reversed, start |-> k,
                                  keys |-> <<faceKey(paper.faces[i]), faceKey(g)>>,
                                  deduped |-> dedupeFaces(<<paper.faces[i], g>>)]>>]
    /\ UNCHANGED <<paper, undoStack, foldRuntime, flipRuntime, manualFoldQueued,
                   deviceFolded, nextFaceId, gestureVars, heap>>

SpecKey == InitKey /\ [][KeyOfVariant]_vars

----------------------------------------------------------------------------
(* One fold of a 200 x 300 sheet *)

MiddleW == 200
MiddleH == 300

\* the fresh 200 x 300 sheet, centred at the origin of the screen or beside it, in
\* the four rotations
MiddleSheets ==
    {[makePaper(FirstId, x, 0, MiddleW, MiddleH) EXCEPT !.rot = q] :
        x \in {0, 20}, q \in 0..3}

\* fold lines through the centre, through other points of the sheet, along its
\* edge and beside it
MiddleHinges == {<<0, 0>>, <<50, 0>>, <<0, 50>>, <<100, 0>>, <<160, 0>>}
MiddleDirs == {<<0, 1>>, <<0, 0 - 1>>, <<1, 0>>, <<0 - 1, 0>>}

InitMiddle ==
    /\ paper \in MiddleSheets
    /\ nextFaceId = FirstId + 1
    /\ undoStack = <<>>
    /\ foldRuntime = Idle
    /\ flipRuntime = Idle
    /\ manualFoldQueued = FALSE
    /\ deviceFolded = FALSE
    /\ ev = EvNone
    /\ GestureInit
    /\ heap = NoHeap

\* buildFoldAnim and, when it built, commitFold
FoldMiddle ==
    /\ ev.buildIn = <<>>
    /\ \E lineDirScreen \in MiddleDirs, hingeScreen \in MiddleHinges,
          foldSideIn \in {Front, Back} :
          \E r \in {buildFoldAnim(paper, lineDirScreen, hingeScreen, foldSideIn,
                                   nextFaceId)} :
          \E folded \in {IF r.kind = "built" THEN commitFold(paper, r.anim, r.nextId)
                         ELSE [paper |-> paper, nextId |-> r.nextId]} :
             /\ paper' = folded.paper
             /\ nextFaceId' = folded.nextId
             /\ ev' = [EvNone EXCEPT
                         !.build = IF r.kind = "rejected" THEN r.reason ELSE r.kind,
                         !.buildIn = <<[paper |-> paper, lineDirScreen |-> lineDirScreen,
                                        hingeScreen |-> hingeScreen,
                                        foldSide |-> r.anim.foldSide, result |-> r]>>,
                         !.fold = IF r.kind = "built"
                                  THEN <<[anim |-> r.anim, before |-> paper,
                                          after |-> folded.paper]>>
                                  ELSE <<>>]
    /\ UNCHANGED <<undoStack, foldRuntime, flipRuntime, manualFoldQueued,
                   deviceFolded, gestureVars, heap>>

SpecMiddle == InitMiddle /\ [][FoldMiddle]_vars

----------------------------------------------------------------------------
(* resetActiveBtn.onclick under viewport and aspect changes *)

\* a fold or a flip is applied only while the id counter is at most this
MaxResetId == 4
\* most resets of one behaviour, each of which leaves a snapshot on the undo stack
MaxResets == 2

\* PAPER_SCREEN_FRACTION = 0.6 = 6 / 10
PAPER_SCREEN_FRACTION_NUM == 6
PAPER_SCREEN_FRACTION_DEN == 10

\* aspects <<n, d>> for n / d: A4_ASPECT = 210 / 297 = 70 / 99, and the square
A4_ASPECT == <<70, 99>>
Aspects == {A4_ASPECT, <<1, 1>>}

\* cssW and cssH as resize leaves them: the viewport the program starts in, the
\* same device turned to landscape with a wider window, and a viewport twice as
\* large; with these every size below is a whole and even number of pixels
StartView == <<700, 990>>
Viewports == {StartView, <<1650, 990>>, <<1400, 1980>>}

computePaperSize(viewW, viewH, aspect) ==
    LET maxW == (viewW * PAPER_SCREEN_FRACTION_NUM) \div PAPER_SCREEN_FRACTION_DEN
        maxH == (viewH * PAPER_SCREEN_FRACTION_NUM) \div PAPER_SCREEN_FRACTION_DEN
    IN IF maxW * aspect[2] > aspect[1] * maxH
       THEN [w |-> (maxH * aspect[1]) \div aspect[2], h |-> maxH]
       ELSE [w |-> maxW, h |-> (maxW * aspect[2]) \div aspect[1]]

orientPaperSize(size, viewW, viewH) ==
    IF viewH >= viewW THEN size ELSE [w |-> size.h, h |-> size.w]

\* orientPaperSize(computePaperSize(cssW, cssH, currentAspect), cssW, cssH)
SizeFor(view, aspect) ==
    orientPaperSize(computePaperSize(view[1], view[2], aspect), view[1], view[2])

\* the centre of the viewport
ViewCenter(view) == <<view[1] \div 2, view[2] \div 2>>

\* the size the sheet is created with
InitialSize == SizeFor(StartView, A4_ASPECT)

InitReset ==
    /\ paper \in {[makePaper(FirstId, ViewCenter(StartView)[1], ViewCenter(StartView)[2],
                              InitialSize.w, InitialSize.h) EXCEPT !.rot = q] :
                      q \in 0..3}
    /\ nextFaceId = FirstId + 1
    /\ undoStack = <<>>
    /\ foldRuntime = Idle
    /\ flipRuntime = Idle
    /\ manualFoldQueued = FALSE
    /\ deviceFolded = FALSE
    /\ ev = EvNone
    /\ GestureInit
    /\ heap = NoHeap

\* a fold of the sheet, build and commit, along a line 100 px beside the centre of
\* the starting viewport
FoldBeforeReset ==
    /\ nextFaceId <= MaxResetId
    /\ \E lineDirScreen \in HingeDirs,
          hingeScreen \in {add2(ViewCenter(StartView), <<100, 0>>)} :
          \E r \in {buildFoldAnim(paper, lineDirScreen, hingeScreen, Front, nextFaceId)} :
          \E folded \in {IF r.kind = "built" THEN commitFold(paper, r.anim, r.nextId)
                         ELSE [paper |-> paper, nextId |-> r.nextId]} :
             /\ paper' = folded.paper
             /\ nextFaceId' = folded.nextId
             /\ ev' = [EvNone EXCEPT
                         !.build = IF r.kind = "rejected" THEN r.reason ELSE r.kind]
    /\ UNCHANGED <<undoStack, foldRuntime, flipRuntime, manualFoldQueued,
                   deviceFolded, gestureVars, heap>>

\* a flip of the sheet, build and commit
FlipBeforeReset ==
    /\ nextFaceId <= MaxResetId
    /\ \E flipped \in {commitFlip(paper, buildFlipAnim(paper))} :
          /\ paper' = flipped
          /\ ev' = EvNone
    /\ UNCHANGED <<undoStack, foldRuntime, flipRuntime, manualFoldQueued,
                   deviceFolded, nextFaceId, gestureVars, heap>>

\* resetActiveBtn.onclick while nothing is animating, with the viewport and the
\* aspect that resize and the size controls have set by then
ResetSized ==
    /\ ~Locked
    /\ Len(undoStack) < MaxResets
    /\ \E view \in Viewports, aspect \in Aspects :
       \E size \in {SizeFor(view, aspect)} :
          /\ undoStack' = Append(undoStack, snapshotPaper(paper))
          /\ paper' = [resetPaper([paper EXCEPT !.baseW = size.w, !.baseH = size.h],
                                  nextFaceId)
                         EXCEPT !.pos = ViewCenter(view)]
          /\ nextFaceId' = nextFaceId + 1
          /\ ev' = [EvNone EXCEPT
                      !.reset = <<[view |-> view, aspect |-> aspect, before |-> paper]>>]
    /\ UNCHANGED <<foldRuntime, flipRuntime, manualFoldQueued, deviceFolded,
                   gestureVars, heap>>

NextReset == FoldBeforeReset \/ FlipBeforeReset \/ ResetSized

SpecReset == InitReset /\ [][NextReset]_vars

----------------------------------------------------------------------------
(* The program with two pointers: drags and pinches around one operation *)

\* most snapshots on the undo stack in the exploration with two pointers
MaxUndoLock == 1

NextLock ==
    \/ TickUI
    \/ FoldRequest(MaxUndoLock)
    \/ FlipClick(MaxUndoLock)
    \/ UndoClick
    \/ ResetClick(MaxUndoLock)
    \/ Gesture(PointerIds)

SpecLock == Init /\ [][NextLock]_vars

----------------------------------------------------------------------------
(* The face objects by address: who holds which object, and what the        *)
(* assignments of commitFlip to the fields of the sheet's face objects reach *)

\* most snapshots on the undo stack in the exploration of the face objects
MaxUndoAlias == 2

\* the objects behind a list of addresses
Deref(obj, refs) == [i \in 1..Len(refs) |-> obj[refs[i]]]

\* the addresses of n objects allocated after those of obj
NewRefs(obj, n) == [i \in 1..n |-> Len(obj) + i]

\* the initial sheet: one face object, held by the sheet only
InitHeap ==
    [obj |-> paper.faces, sheet |-> <<1>>, keepFaces |-> <<>>, movingFaces |-> <<>>,
     originalFaces |-> <<>>, undoStack |-> <<>>]

\* the snapshot pushed holds the sheet's face objects themselves
HeapSnapshotShared(h) == [h EXCEPT !.undoStack = Append(@, h.sheet)]

\* undoStack.push(snapshotPaper(paper)): a new object per face
HeapSnapshot(h) ==
    [h EXCEPT !.obj = @ \o [i \in 1..Len(h.sheet) |-> cloneFace(h.obj[h.sheet[i]])],
              !.undoStack = Append(@, NewRefs(h.obj, Len(h.sheet)))]

\* buildFoldAnim: every piece is a new object
HeapBuildFold(h, anim) ==
    [h EXCEPT !.obj = @ \o anim.keepFaces \o anim.movingFaces,
              !.keepFaces = NewRefs(h.obj, Len(anim.keepFaces)),
              !.movingFaces = NewRefs(h.obj \o anim.keepFaces, Len(anim.movingFaces))]

\* the addresses dedupeFaces keeps: the first object of every key
DedupeRefs(obj, refs) ==
    SelectSeq(refs, LAMBDA a :
        \A j \in 1..Len(refs) :
            (\E i \in 1..Len(refs) : i > j /\ refs[i] = a /\ refs[j] # a)
                => faceKey(obj[refs[j]]) # faceKey(obj[a]))

\* commitFold: the stationary pieces become the sheet's faces as the objects they
\* are, the moved faces are new objects; the animation is dropped
HeapCommitFold(h, anim, nextId) ==
    LET moving == Deref(h.obj, h.movingFaces)
        maxMovingLayer == MaxLayerOf(moving)
        moved == [i \in 1..Len(moving) |->
                     FoldedFace(moving[i], anim, maxMovingLayer, nextId + i - 1)]
        obj1 == h.obj \o moved
    IN [h EXCEPT !.obj = obj1,
                 !.sheet = DedupeRefs(obj1, h.keepFaces \o NewRefs(h.obj, Len(moved))),
                 !.keepFaces = <<>>, !.movingFaces = <<>>]

\* buildFlipAnim: originalFaces are copies
HeapBuildFlip(h) ==
    [h EXCEPT !.obj = @ \o [i \in 1..Len(h.sheet) |-> cloneFace(h.obj[h.sheet[i]])],
              !.originalFaces = NewRefs(h.obj, Len(h.sheet))]

\* commitFlip: the fields of the sheet's face objects are assigned in place; the
\* animation is dropped
HeapCommitFlip(h, maxLayer, rot) ==
    LET flipped == FlipFaces(Deref(h.obj, h.sheet), maxLayer, CosQ(rot), SinQ(rot), 1)
    IN [h EXCEPT !.obj = [a \in 1..Len(h.obj) |->
                             IF \E i \in 1..Len(h.sheet) : h.sheet[i] = a
                             THEN flipped[CHOOSE i \in 1..Len(h.sheet) : h.sheet[i] = a]
                             ELSE h.obj[a]],
                 !.originalFaces = <<>>]

\* restorePaper: the sheet's faces are copies of the snapshot's; the snapshot is popped
HeapRestore(h) ==
    LET snap == h.undoStack[Len(h.undoStack)]
    IN [h EXCEPT !.obj = @ \o [i \in 1..Len(snap) |-> cloneFace(h.obj[snap[i]])],
                 !.sheet = NewRefs(h.obj, Len(snap)),
                 !.undoStack = SubSeq(@, 1, Len(h.undoStack) - 1)]

\* resetPaper: one new rectangle
HeapReset(h, p, id) ==
    [h EXCEPT !.obj = Append(@, makeRectFace(id, p.baseW, p.baseH, "front", 0)),
              !.sheet = <<Len(h.obj) + 1>>]

\* the addresses of a list, each once, in the order of their first occurrence
RECURSIVE UniqueRefs(_, _)
UniqueRefs(refs, out) ==
    IF refs = <<>> THEN out
    ELSE UniqueRefs(Tail(refs),
                    IF \E i \in 1..Len(out) : out[i] = Head(refs) THEN out
                    ELSE Append(out, Head(refs)))

\* garbage collection: the objects nothing holds are gone and the others are
\* numbered in the order the sheet, the animations and the snapshots hold them (an
\* address is not observable, only whether two holders hold the same object)
Collect(h) ==
    LET live == UniqueRefs(h.sheet \o h.keepFaces \o h.movingFaces \o h.originalFaces
                              \o Flatten(h.undoStack), <<>>)
        At(a) == CHOOSE i \in 1..Len(live) : live[i] = a
        Moved(refs) == [i \in 1..Len(refs) |-> At(refs[i])]
    IN [obj |-> Deref(h.obj, live), sheet |-> Moved(h.sheet),
        keepFaces |-> Moved(h.keepFaces), movingFaces |-> Moved(h.movingFaces),
        originalFaces |-> Moved(h.originalFaces),
        undoStack |-> [k \in 1..Len(h.undoStack) |-> Moved(h.undoStack[k])]]

\* the program's variables as the object graph shows them: the faces of the sheet,
\* of the animations and of the snapshots are read through their addresses
SheetOf(h, p) == [p EXCEPT !.faces = Deref(h.obj, h.sheet)]
FoldRuntimeOf(h, rt) ==
    IF Animating(rt)
    THEN [rt EXCEPT !.anim.keepFaces = Deref(h.obj, h.keepFaces),
                    !.anim.movingFaces = Deref(h.obj, h.movingFaces)]
    ELSE rt
FlipRuntimeOf(h, rt) ==
    IF Animating(rt)
    THEN [rt EXCEPT !.anim.originalFaces = Deref(h.obj, h.originalFaces)]
    ELSE rt
UndoStackOf(h, stack) ==
    [k \in 1..Len(stack) |-> [stack[k] EXCEPT !.faces = Deref(h.obj, h.undoStack[k])]]

InitAlias ==
    /\ paper = makePaper(FirstId, CenterX, CenterY, PaperW, PaperH)
    /\ nextFaceId = FirstId + 1
    /\ undoStack = <<>>
    /\ foldRuntime = Idle
    /\ flipRuntime = Idle
    /\ manualFoldQueued = FALSE
    /\ deviceFolded = FALSE
    /\ ev = EvNone
    /\ GestureInit
    /\ heap = InitHeap

\* tick on the face objects: the build, the fold's advance and commit, the flip's
\* advance and commit, in the order of the frame
TickAlias ==
    \E dt \in {MaxDt} :
    \E activeHingeDir \in HingeDirsUI, activeHinge \in HingePointsUI :
    LET foldedNow == manualFoldQueued
        attempt == foldRuntime.phase = "idle" /\ foldedNow /\ ~deviceFolded
    IN
    \E buildResult \in {IF attempt
                        THEN buildFoldAnim(paper, activeHingeDir, activeHinge,
                                           Front, nextFaceId)
                        ELSE NoBuild} :
    \E fr1 \in {FoldRuntimeAfterBuild(buildResult, activeHinge, activeHingeDir)} :
    \E h1 \in {IF buildResult.kind = "built" THEN HeapBuildFold(heap, buildResult.anim)
               ELSE heap} :
    LET id1 == IF attempt THEN buildResult.nextId ELSE nextFaceId
        foldDone == Animating(fr1) /\ ProgressDone(AdvanceProgress(fr1.anim, dt))
    IN
    \E h2 \in {IF foldDone THEN HeapCommitFold(HeapSnapshot(h1), fr1.anim, id1)
               ELSE h1} :
    LET undo2 == IF foldDone THEN Append(undoStack, snapshotPaper(paper)) ELSE undoStack
        fr2 == IF foldDone THEN Idle
               ELSE IF Animating(fr1)
                    THEN [fr1 EXCEPT !.anim = AdvanceProgress(fr1.anim, dt)]
               ELSE fr1
        flipDone == Animating(flipRuntime)
                       /\ ProgressDone(AdvanceProgress(flipRuntime.anim, dt))
    IN
    \E h3 \in {Collect(IF flipDone
                       THEN HeapCommitFlip(HeapSnapshot(h2), flipRuntime.anim.maxLayer,
                                           paper.rot)
                       ELSE h2)} :
       /\ heap' = h3
       /\ manualFoldQueued' = QueueAfterTick(manualFoldQueued, foldedNow)
       /\ deviceFolded' = foldedNow
       /\ foldRuntime' = FoldRuntimeOf(h3, fr2)
       /\ flipRuntime' =
              IF flipDone THEN Idle
              ELSE IF Animating(flipRuntime)
                   THEN FlipRuntimeOf(h3, [flipRuntime EXCEPT
                                              !.anim = AdvanceProgress(flipRuntime.anim, dt)])
              ELSE flipRuntime
       /\ paper' = SheetOf(h3, paper)
       /\ undoStack' = UndoStackOf(h3, IF flipDone THEN Append(undo2, snapshotPaper(paper))
                                       ELSE undo2)
       /\ nextFaceId' = IF foldDone THEN id1 + Len(h1.movingFaces) ELSE id1
       /\ UNCHANGED gestureVars
       /\ ev' = [EvNone EXCEPT !.dt = dt,
                               !.fold = IF foldDone THEN <<TRUE>> ELSE <<>>,
                               !.flip = IF flipDone THEN <<TRUE>> ELSE <<>>]

\* flipPaperBtn.onclick on the face objects
FlipClickAlias ==
    /\ Locked \/ Budget(MaxUndoAlias)
    /\ \E h1 \in {IF Locked THEN heap ELSE Collect(HeapBuildFlip(heap))} :
          /\ heap' = h1
          /\ flipRuntime' = IF Locked THEN flipRuntime
                            ELSE FlipRuntimeOf(h1, [phase |-> "animating",
                                                    anim |-> buildFlipAnim(paper)])
    /\ ev' = EvNone
    /\ UNCHANGED <<paper, undoStack, foldRuntime, manualFoldQueued, deviceFolded,
                   nextFaceId, gestureVars>>

\* undoBtn.onclick on the face objects
UndoClickAlias ==
    /\ ~Locked /\ undoStack # <<>>
    /\ \E h1 \in {Collect(HeapRestore(heap))} :
          /\ heap' = h1
          /\ paper' = SheetOf(h1, restorePaper(paper, undoStack[Len(undoStack)]))
          /\ undoStack' = UndoStackOf(h1, SubSeq(undoStack, 1, Len(undoStack) - 1))
    /\ ev' = [EvNone EXCEPT !.undo = <<TRUE>>]
    /\ UNCHANGED <<foldRuntime, flipRuntime, manualFoldQueued, deviceFolded, nextFaceId,
                   gestureVars>>

\* resetActiveBtn.onclick on the face objects
ResetClickAlias ==
    /\ ~Locked /\ Budget(MaxUndoAlias) /\ nextFaceId <= MaxFaceId
    /\ \E h1 \in {Collect(HeapReset(HeapSnapshot(heap), paper, nextFaceId))} :
          /\ heap' = h1
          /\ paper' = SheetOf(h1, resetPaper(paper, nextFaceId))
          /\ undoStack' = UndoStackOf(h1, Append(undoStack, snapshotPaper(paper)))
    /\ nextFaceId' = nextFaceId + 1
    /\ ev' = [EvNone EXCEPT !.reset = <<TRUE>>]
    /\ UNCHANGED <<foldRuntime, flipRuntime, manualFoldQueued, deviceFolded,
                   gestureVars>>

NextAlias ==
    \/ TickAlias
    \/ FoldRequest(MaxUndoAlias)
    \/ FlipClickAlias
    \/ UndoClickAlias
    \/ ResetClickAlias

SpecAlias == InitAlias /\ [][NextAlias]_vars

----------------------------------------------------------------------------
(* drawFoldingPaper: the order in which the pieces of a fold are painted *)

\* depths are counted in thousandths of a pixel
ZPerPx == 1000
Z_EPSILON == 1
\* Math.max(stackZMax, 0.01)
MIN_STACK_Z == 10

\* progress > 0.5 (the easing leaves one half where it is)
viewingBackOfStack(anim) == 2 * anim.progress > anim.durationSeconds

\* the sine of the fold angle: 0 while the moving stack lies flat (progress 0 and 1),
\* positive in between, where 1 stands for every value (only the largest |zAvg|,
\* raised to 0.01, is used)
FoldSine(anim) ==
    IF anim.progress <= 0 \/ anim.progress >= anim.durationSeconds THEN 0 ELSE 1

\* |zAvg| of a moving piece: the mean height of its rotated vertices
AbsZAvg(f, anim) ==
    Abs(SeqSum([i \in 1..Len(f.verts) |->
                   signedDistanceToLine(f.verts[i], anim.lineLocal) * FoldSine(anim) * ZPerPx])
        \div Max2(1, Len(f.verts)))

\* the one depth of the whole moving stack, signed by the fold side
stackZSigned(anim) ==
    LET stackZMax == SeqMax([i \in 1..Len(anim.movingFaces) |->
                                AbsZAvg(anim.movingFaces[i], anim)], 0)
        zSign == IF anim.foldSide = Front THEN 1 ELSE 0 - 1
    IN zSign * Max2(stackZMax, MIN_STACK_Z)

\* items before the sort: the stationary pieces, then the moving pieces; piece is the
\* index in keepFaces, respectively movingFaces
RenderItems(anim) ==
    LET maxKeepLayer == MaxLayerOf(anim.keepFaces)
        maxMovingLayer == MaxLayerOf(anim.movingFaces)
        z == stackZSigned(anim)
    IN [i \in 1..Len(anim.keepFaces) |->
           [moving |-> FALSE, piece |-> i, zAvg |-> 0, layer |-> anim.keepFaces[i].layer]]
       \o
       [i \in 1..Len(anim.movingFaces) |->
           [moving |-> TRUE, piece |-> i, zAvg |-> z,
            layer |-> (maxKeepLayer + 1)
                        + (IF viewingBackOfStack(anim)
                           THEN maxMovingLayer - anim.movingFaces[i].layer
                           ELSE anim.movingFaces[i].layer)]]

\* the comparator of items.sort is negative
PaintedBefore(a, b) ==
    IF Abs(a.zAvg - b.zAvg) >= Z_EPSILON THEN a.zAvg < b.zAvg ELSE a.layer < b.layer

\* Array.prototype.sort is stable: an item goes before the first item it is
\* painted before
RECURSIVE InsertItem(_, _)
InsertItem(sorted, it) ==
    IF sorted = <<>> THEN <<it>>
    ELSE IF PaintedBefore(it, Head(sorted)) THEN <<it>> \o sorted
    ELSE <<Head(sorted)>> \o InsertItem(Tail(sorted), it)

RECURSIVE SortItems(_, _)
SortItems(items, sorted) ==
    IF items = <<>> THEN sorted
    ELSE SortItems(Tail(items), InsertItem(sorted, Head(items)))

\* the pieces in the order they are painted, the first at the bottom
PaintOrder(anim) == SortItems(RenderItems(anim), <<>>)

----------------------------------------------------------------------------
(* the last frame of an animation: where the vertices are drawn at progress 1 *)

\* math/vec3 rotatePointAroundLine by the angle PI, for a point and an axis in the
\* plane z = 0: the point stays in the plane (z = 0 is left out)
rotatePointAroundLineHalfTurn(p, axisPoint, axisDir) ==
    LET v == sub2(p, axisPoint)
    IN add2(axisPoint, sub2(mul2(axisDir, 2 * dot2(v, axisDir)), v))

\* project3To2Local of a point with z = 0: persp = 1 / (1 + 0)
project3To2LocalFlat(p) == <<p[1] \div 1, p[2] \div 1>>

\* drawFoldingPaper at progress 1: the local position of a vertex of a moving piece
DrawnFoldVertex(v, anim) ==
    project3To2LocalFlat(
        rotatePointAroundLineHalfTurn(v, anim.lineLocal.p, anim.lineLocal.dir))

\* drawFlippingPaper at progress 1: the local position of a vertex; the axis is the
\* y axis through the origin of the sheet
DrawnFlipVertex(v) ==
    project3To2LocalFlat(rotatePointAroundLineHalfTurn(v, <<0, 0>>, <<0, 1>>))

----------------------------------------------------------------------------
(* The frame clock: tick with the time between two frames as its input *)

\* math/scalars clamp
clamp(v, lo, hi) == Max2(lo, Min2(hi, v))

\* milliseconds between two frames: a first frame stamped before the clock was
\* first read, the clock read twice at once, a fast display, a 30 Hz display, a slow
\* frame, a tab that was in the background
RawDeltas == {0 - 16, 0, 16, 33, 50, 1000}

\* the delta taken as it comes
FrameDeltaUnclamped(raw) == raw

\* dt = clamp((now - last) / 1000, 0, 0.033), in milliseconds
FrameDelta(raw) == clamp(raw, 0, MaxDt)

\* an animation has just been built on the fresh sheet: a fold by a frame, or a flip
\* by the flip button; ev.buildIn holds the number of frames that have advanced it
InitClock ==
    /\ paper = makePaper(FirstId, CenterX, CenterY, PaperW, PaperH)
    /\ nextFaceId = FirstId + 3
    /\ undoStack = <<>>
    /\ \/ /\ foldRuntime = [phase |-> "animating",
                            anim |-> buildFoldAnim(paper, <<0, 1>>, <<CenterX + 1, CenterY>>,
                                                   Front, FirstId + 1).anim,
                            hinge |-> <<CenterX + 1, CenterY>>, hingeDir |-> <<0, 1>>]
          /\ flipRuntime = Idle
       \/ /\ foldRuntime = Idle
          /\ flipRuntime = [phase |-> "animating", anim |-> buildFlipAnim(paper)]
    /\ manualFoldQueued = FALSE
    /\ deviceFolded = FALSE
    /\ ev = [EvNone EXCEPT !.buildIn = <<0>>]
    /\ GestureInit
    /\ heap = NoHeap

\* tick while the fold signal stays down: the clamp of the frame delta, the advance
\* of the animation in flight and, at the end, its commit
TickClock ==
    /\ Locked
    /\ \E raw \in RawDeltas :
       \E dt \in {FrameDelta(raw)} :
       LET foldDone == Animating(foldRuntime)
                          /\ ProgressDone(AdvanceProgress(foldRuntime.anim, dt))
           flipDone == Animating(flipRuntime)
                          /\ ProgressDone(AdvanceProgress(flipRuntime.anim, dt))
       IN
       \E folded \in {IF foldDone
                      THEN commitFold(paper, ClampProgress(AdvanceProgress(foldRuntime.anim, dt)),
                                      nextFaceId)
                      ELSE [paper |-> paper, nextId |-> nextFaceId]} :
       \E paper3 \in {IF flipDone
                      THEN commitFlip(folded.paper,
                                      ClampProgress(AdvanceProgress(flipRuntime.anim, dt)))
                      ELSE folded.paper} :
          /\ foldRuntime' =
                 IF foldDone THEN Idle
                 ELSE IF Animating(foldRuntime)
                      THEN [foldRuntime EXCEPT !.anim = AdvanceProgress(foldRuntime.anim, dt)]
                 ELSE foldRuntime
          /\ flipRuntime' =
                 IF flipDone THEN Idle
                 ELSE IF Animating(flipRuntime)
                      THEN [flipRuntime EXCEPT !.anim = AdvanceProgress(flipRuntime.anim, dt)]
                 ELSE flipRuntime
          /\ paper' = paper3
          /\ undoStack' = IF foldDone \/ flipDone THEN Append(undoStack, snapshotPaper(paper))
                          ELSE undoStack
          /\ nextFaceId' = folded.nextId
          /\ ev' = [EvNone EXCEPT !.dt = dt,
                                  !.buildIn = <<ev.buildIn[1] + (IF dt > 0 THEN 1 ELSE 0)>>,
                                  !.fold = IF foldDone THEN <<raw>> ELSE <<>>,
                                  !.flip = IF flipDone THEN <<raw>> ELSE <<>>]
    /\ manualFoldQueued' = QueueAfterTick(manualFoldQueued, manualFoldQueued)
    /\ deviceFolded' = manualFoldQueued
    /\ UNCHANGED <<gestureVars, heap>>

SpecClock == InitClock /\ [][TickClock]_vars

----------------------------------------------------------------------------
(* The pointer handlers with up to three pointers down at a time *)

\* the pointerIds of three fingers
TouchIds == {1, 2, 3}

\* In this exploration a pointer is named by its pointerId together with where it
\* took hold of the sheet: its position minus the sheet's position at its
\* pointerdown. The handlers only compare the names.
TouchDown(n, pos) ==
    /\ \A i \in 1..Len(pointers) : pointers[i].id[1] # n
    /\ PointerDown(<<n, sub2(pos, paper.pos)>>, pos)

TouchMove(n, pos) ==
    \E i \in 1..Len(pointers) :
        pointers[i].id[1] = n /\ PointerMove(pointers[i].id, pos)

TouchUp(n) ==
    \E i \in 1..Len(pointers) :
        pointers[i].id[1] = n /\ PointerUp(pointers[i].id)

NextTouch ==
    \/ \E n \in TouchIds, pos \in PointerPositions : TouchDown(n, pos)
    \/ \E n \in TouchIds, pos \in PointerPositions : TouchMove(n, pos)
    \/ \E n \in TouchIds : TouchUp(n)
    \/ PointerCancel

SpecTouch == Init /\ [][NextTouch]_vars

----------------------------------------------------------------------------
(* Properties *)

FoldProgress == foldRuntime.anim.progress
FlipProgress == flipRuntime.anim.progress
IsTick(e) == e.dt >= 0

\* a step taken while an animation is in flight starts no animation
C1_NoStartWhileLocked ==
    Locked => /\ Animating(foldRuntime)' => Animating(foldRuntime)
              /\ Animating(flipRuntime)' => Animating(flipRuntime)

\* C1: a fold and a flip animation are never in flight together, and a step taken
\* while one of them is in flight (a tick that sees a fold trigger, a flip press)
\* starts no animation
C1_MutuallyExclusive ==
    /\ [](~(Animating(foldRuntime) /\ Animating(flipRuntime)))
    /\ [][C1_NoStartWhileLocked]_vars

\* between ticks the progress of an animation in flight is in [0, 1)
C2_ProgressInRange ==
    /\ Animating(foldRuntime) =>
          FoldProgress >= 0 /\ FoldProgress < foldRuntime.anim.durationSeconds
    /\ Animating(flipRuntime) =>
          FlipProgress >= 0 /\ FlipProgress < flipRuntime.anim.durationSeconds

\* a new record starts at progress 0 (a fold is built and advanced by the same
\* tick), a record in flight never loses progress, and the tick that takes it to 1 or
\* beyond sets it to exactly 1, commits it once and leaves the runtime idle; no other
\* step ends an animation
C2_FoldStep ==
    /\ ~Animating(foldRuntime) /\ Animating(foldRuntime)' =>
          /\ IsTick(ev') /\ ev'.buildIn # <<>>
          /\ ev'.buildIn[1].result.anim.progress = 0
          /\ FoldProgress' = ev'.dt
    /\ Animating(foldRuntime) /\ Animating(foldRuntime)' =>
          /\ FoldProgress' >= FoldProgress
          /\ foldRuntime' = [foldRuntime EXCEPT !.anim.progress = FoldProgress']
    /\ Animating(foldRuntime) /\ IsTick(ev')
          /\ FoldProgress + ev'.dt >= foldRuntime.anim.durationSeconds =>
          /\ ~Animating(foldRuntime)'
          /\ Len(ev'.fold) = 1
          /\ ev'.fold[1].anim = [foldRuntime.anim EXCEPT
                                    !.progress = foldRuntime.anim.durationSeconds]
    /\ Animating(foldRuntime) /\ ~Animating(foldRuntime)' =>
          IsTick(ev') /\ FoldProgress + ev'.dt >= foldRuntime.anim.durationSeconds
    /\ ev'.fold # <<>> => Animating(foldRuntime) /\ ~Animating(foldRuntime)'

C2_FlipStep ==
    /\ ~Animating(flipRuntime) /\ Animating(flipRuntime)' => FlipProgress' = 0
    /\ Animating(flipRuntime) /\ Animating(flipRuntime)' =>
          /\ FlipProgress' >= FlipProgress
          /\ flipRuntime' = [flipRuntime EXCEPT !.anim.progress = FlipProgress']
    /\ Animating(flipRuntime) /\ IsTick(ev')
          /\ FlipProgress + ev'.dt >= flipRuntime.anim.durationSeconds =>
          /\ ~Animating(flipRuntime)'
          /\ Len(ev'.flip) = 1
          /\ ev'.flip[1].anim = [flipRuntime.anim EXCEPT
                                    !.progress = flipRuntime.anim.durationSeconds]
    /\ Animating(flipRuntime) /\ ~Animating(flipRuntime)' =>
          IsTick(ev') /\ FlipProgress + ev'.dt >= flipRuntime.anim.durationSeconds
    /\ ev'.flip # <<>> => Animating(flipRuntime) /\ ~Animating(flipRuntime)'

\* C2: the progress of every animation record starts at 0, never decreases and is in
\* [0, 1) between ticks; the first tick that takes it to 1 or beyond sets it to
\* exactly 1, runs the matching commit once and leaves the runtime idle
C2_ProgressLaw == []C2_ProgressInRange /\ [][C2_FoldStep /\ C2_FlipStep]_vars

\* a fold that was in flight over several ticks has just committed at progress 1
C2_Witness ==
    /\ ev.fold # <<>> /\ ev.fold[1].anim.progress = FOLD_DURATION_SECONDS
    /\ ev.buildIn = <<>>
    /\ ~Animating(foldRuntime)

Rejections == {"noIntersection", "emptyMovingSide", "emptyStationarySide"}

\* a tick whose build is rejected leaves the fold runtime idle and changes the
\* sheet and the undo stack by nothing but the commit of a flip that was in flight;
\* the fold runtime leaves idle only in a tick whose build returned built
C4_RejectedStep ==
    /\ ev'.build \in Rejections =>
          /\ ~Animating(foldRuntime)'
          /\ ev'.fold = <<>>
          /\ ev'.buildIn[1].paper = paper
          /\ IF ev'.flip = <<>>
             THEN paper' = paper /\ undoStack' = undoStack
             ELSE /\ paper' = commitFlip(paper, ev'.flip[1].anim)
                  /\ undoStack' = Append(undoStack, snapshotPaper(paper))
    /\ ~Animating(foldRuntime) /\ Animating(foldRuntime)' => ev'.build = "built"

\* C4: a rejected fold build has no effect: the tick it happens in leaves the sheet
\* and the undo stack as they were (but for the commit of a flip already in flight)
\* and the fold runtime idle; the fold runtime leaves idle only on a build that
\* returned built
C4_RejectedBuildNoEffect == [][C4_RejectedStep]_vars

\* a build has just been rejected while nothing else was in flight
C4_Witness ==
    /\ ev.build \in Rejections
    /\ ~Locked
    /\ ev.flip = <<>>
    /\ paper = ev.buildIn[1].paper

----------------------------------------------------------------------------
(* Properties of buildFoldAnim, checked under SpecBuild *)

\* the build the last step made: its inputs and its result
LastBuild == ev.buildIn[1]

\* the signed distances of every vertex of the sheet to the fold line of build b
VertexDistances(b) ==
    {signedDistanceToLine(b.paper.faces[i].verts[j], b.result.anim.lineLocal) :
        <<i, j>> \in {ij \in (1..Len(b.paper.faces)) \X (1..4) :
                         ij[2] <= Len(b.paper.faces[ij[1]].verts)}}

\* the fold line passes the sheet without touching it
LineOutside(b) ==
    \/ \A d \in VertexDistances(b) : d > 0
    \/ \A d \in VertexDistances(b) : d < 0

\* C6: a build whose fold line lies entirely outside the sheet is rejected with
\* reason noIntersection
C6_OutsideIsNoIntersection ==
    ev.buildIn # <<>> /\ LineOutside(LastBuild) => ev.build = "noIntersection"

\* the sheet of build b is one rectangle and the fold line runs along one of its
\* edges; s is the half-plane that holds the rectangle
OnEdgeOfRectangle(b, s) ==
    /\ Len(b.paper.faces) = 1
    /\ Len(b.paper.faces[1].verts) = 4
    /\ \E i \in 1..4 :
          LET v == b.paper.faces[1].verts
              line == b.result.anim.lineLocal
          IN /\ signedDistanceToLine(v[i], line) = 0
             /\ signedDistanceToLine(v[(i % 4) + 1], line) = 0
    /\ \A d \in VertexDistances(b) : d * s >= 0
    /\ \E d \in VertexDistances(b) : d * s > 0

\* C7: with the fold line along one edge of the rectangle the build is rejected:
\* emptyMovingSide when the side asked to move is the empty half-plane,
\* emptyStationarySide when it is the half-plane that holds the whole rectangle
C7_FoldOnEdgeRejected ==
    \A s \in {Front, Back} :
        ev.buildIn # <<>> /\ OnEdgeOfRectangle(LastBuild, s) =>
            /\ LastBuild.result.kind = "rejected"
            /\ LastBuild.foldSide = s => ev.build = "emptyStationarySide"
            /\ LastBuild.foldSide # s => ev.build = "emptyMovingSide"

\* the line ran along an edge and the side asked to move held the whole rectangle
C7_Witness ==
    /\ ev.buildIn # <<>>
    /\ \E s \in {Front, Back} :
          OnEdgeOfRectangle(LastBuild, s) /\ LastBuild.foldSide = s
    /\ ev.build = "emptyStationarySide"

\* twice the area of what half-plane side keeps of face f
ClippedArea2(f, line, side) == polyArea2(clipPolyHalfPlane(f.verts, line, side))

\* how many faces of build b leave a piece above the minimum area in half-plane side
PieceCount(b, side) ==
    Cardinality({i \in 1..Len(b.paper.faces) :
        ClippedArea2(b.paper.faces[i], b.result.anim.lineLocal, side)
            > 2 * MIN_FACE_AREA})

\* C8: the build returns built exactly when a piece above the minimum area lands on
\* the moving side and one on the stationary side; the reason is noIntersection
\* exactly when both sides are empty, emptyMovingSide exactly when only the moving
\* side is, emptyStationarySide exactly when only the stationary side is
C8_BuiltIffBothSides ==
    ev.buildIn # <<>> =>
        LET moving == PieceCount(LastBuild, LastBuild.foldSide)
            stationary == PieceCount(LastBuild, 0 - LastBuild.foldSide)
        IN /\ ev.build \in Rejections \cup {"built"}
           /\ ev.build = "built" <=> moving > 0 /\ stationary > 0
           /\ ev.build = "noIntersection" <=> moving = 0 /\ stationary = 0
           /\ ev.build = "emptyMovingSide" <=> moving = 0 /\ stationary > 0
           /\ ev.build = "emptyStationarySide" <=> moving > 0 /\ stationary = 0
           /\ ev.build = "built" =>
                 /\ Len(LastBuild.result.anim.movingFaces) = moving
                 /\ Len(LastBuild.result.anim.keepFaces) = stationary

\* a build on a folded sheet was built although the line cut a piece off one face
\* that was too small to count
C8_Witness ==
    /\ ev.buildIn # <<>>
    /\ ev.build = "built"
    /\ \E i \in 1..Len(LastBuild.paper.faces), side \in {Front, Back} :
          LET a == ClippedArea2(LastBuild.paper.faces[i],
                                LastBuild.result.anim.lineLocal, side)
          IN a > 0 /\ a <= 2 * MIN_FACE_AREA

----------------------------------------------------------------------------
(* Properties of commitFold, checked under Spec *)

\* the fold commit the last step ran: its animation record, the sheet before it and
\* the sheet after it
LastFold == ev.fold[1]

\* the face the commit made of moving piece i: the kept pieces come first
MovedFace(c, i) == c.after.faces[Len(c.anim.keepFaces) + i]

\* C9: after commitFold the stacking order of the moving faces is reversed (of two
\* moving faces the one that was lower ends up higher) and every moved face lies above
\* every kept face
C9_LayerInversion ==
    ev.fold # <<>> =>
        LET c == LastFold
            keep == c.anim.keepFaces
            moving == c.anim.movingFaces
        IN /\ Len(c.after.faces) = Len(keep) + Len(moving)
           /\ \A i, j \in 1..Len(moving) :
                 moving[i].layer < moving[j].layer =>
                     MovedFace(c, i).layer > MovedFace(c, j).layer
           /\ \A i \in 1..Len(moving), j \in 1..Len(keep) :
                 MovedFace(c, i).layer > c.after.faces[j].layer

\* a fold over an earlier fold has just committed: it moved two faces of different
\* layers
C9_Witness ==
    /\ ev.fold # <<>>
    /\ \E i, j \in 1..Len(LastFold.anim.movingFaces) :
          LastFold.anim.movingFaces[i].layer < LastFold.anim.movingFaces[j].layer

\* r is the mirror image of v through line: as far from it on the other side, and
\* at the same place along it
IsMirrorImage(r, v, line) ==
    /\ signedDistanceToLine(r, line) = 0 - signedDistanceToLine(v, line)
    /\ dot2(sub2(r, v), line.dir) = 0

----------------------------------------------------------------------------
(* Properties of the program with gestures, checked under SpecUI and FairSpecUI *)

\* an animation in flight is left alone or advanced, until the tick that commits it
C3_NoCancelStep ==
    /\ Animating(foldRuntime) =>
          \/ /\ Animating(foldRuntime)'
             /\ foldRuntime' = [foldRuntime EXCEPT !.anim.progress = FoldProgress']
             /\ FoldProgress' = FoldProgress + (IF IsTick(ev') THEN ev'.dt ELSE 0)
          \/ /\ ~Animating(foldRuntime)'
             /\ ev'.fold # <<>>
             /\ ev'.fold[1].anim = ClampProgress(foldRuntime.anim)
    /\ Animating(flipRuntime) =>
          \/ /\ Animating(flipRuntime)'
             /\ flipRuntime' = [flipRuntime EXCEPT !.anim.progress = FlipProgress']
             /\ FlipProgress' = FlipProgress + (IF IsTick(ev') THEN ev'.dt ELSE 0)
          \/ /\ ~Animating(flipRuntime)'
             /\ ev'.flip # <<>>
             /\ ev'.flip[1].anim = ClampProgress(flipRuntime.anim)

\* C3: while ticks keep coming with a positive time delta, every fold and every flip
\* that starts is committed and its runtime idle again, and no gesture, undo, reset,
\* fold or flip request cancels or restarts it on the way
C3_AnimationsCommit ==
    /\ [][C3_NoCancelStep]_vars
    /\ Animating(foldRuntime) ~> (ev.fold # <<>> /\ ~Animating(foldRuntime))
    /\ Animating(flipRuntime) ~> (ev.flip # <<>> /\ ~Animating(flipRuntime))

\* a fold has just committed although the pointer that was dragging the sheet moved
\* on during the animation
C3_Witness ==
    /\ ev.fold # <<>>
    /\ ~Animating(foldRuntime)
    /\ pointers # <<>>
    /\ dragOffset # <<>>
    /\ sub2(pointers[1].pos, dragOffset[1]) # paper.pos

\* snapshot snap holds the pos, rot, scale and faces of sheet p
SameSheet(snap, p) ==
    /\ snap.pos = p.pos
    /\ snap.rot = p.rot
    /\ snap.scale = p.scale
    /\ snap.faces = p.faces

\* the sheets this step committed on or reset, each as it was just before
SheetsChanged(e) ==
    (IF e.fold # <<>> THEN <<e.fold[1].before>> ELSE <<>>)
        \o (IF e.flip # <<>> THEN <<e.flip[1].before>> ELSE <<>>)

C5_UndoStep ==
    \* a tick pushes one snapshot per commit it runs, taken just before the commit
    /\ IsTick(ev') =>
          /\ Len(undoStack') = Len(undoStack) + Len(SheetsChanged(ev'))
          /\ SubSeq(undoStack', 1, Len(undoStack)) = undoStack
          /\ \A i \in 1..Len(SheetsChanged(ev')) :
                SameSheet(undoStack'[Len(undoStack) + i], SheetsChanged(ev')[i])
          /\ SheetsChanged(ev') # <<>> => SheetsChanged(ev')[1] = paper
          /\ Len(SheetsChanged(ev')) = 2 => ev'.flip[1].before = ev'.fold[1].after
    \* a reset while idle pushes one snapshot of the sheet it resets
    /\ ev'.reset # <<>> /\ ~Locked =>
          /\ Len(undoStack') = Len(undoStack) + 1
          /\ SubSeq(undoStack', 1, Len(undoStack)) = undoStack
          /\ SameSheet(undoStack'[Len(undoStack')], paper)
    \* an undo while idle pops the top snapshot and leaves the sheet equal to it
    /\ ev'.undo # <<>> /\ ~Locked /\ undoStack # <<>> =>
          /\ undoStack = Append(undoStack', undoStack[Len(undoStack)])
          /\ SameSheet(undoStack[Len(undoStack)], paper')
    \* an undo on an empty stack changes nothing
    /\ ev'.undo # <<>> /\ undoStack = <<>> =>
          paper' = paper /\ undoStack' = undoStack
    \* nothing else touches the stack
    /\ ~IsTick(ev') /\ ~(ev'.reset # <<>> /\ ~Locked)
          /\ ~(ev'.undo # <<>> /\ ~Locked /\ undoStack # <<>>) =>
          undoStack' = undoStack

\* C5: one snapshot is pushed just before every fold commit, flip commit and reset,
\* equal to the sheet's pos, rot, scale and faces at that moment; an undo while idle
\* pops the top snapshot and leaves the sheet equal to it; an undo on an empty stack
\* changes nothing
C5_UndoStack == [][C5_UndoStep]_vars

\* the first of two undos has just brought back a sheet that had been dragged away
\* from the centre before the commit it undoes
C5_Witness ==
    /\ ev.undo = <<TRUE>>
    /\ Len(undoStack) = 1
    /\ paper.pos # <<CenterX, CenterY>>
    /\ Len(paper.faces) > 1

----------------------------------------------------------------------------
(* Properties of the faces of a sheet *)

\* b lists the vertices of a from another starting vertex, in the same or in the
\* opposite direction
SamePolygon(a, b) ==
    /\ Len(a) = Len(b)
    /\ \/ a = b
       \/ \E k \in 1..Len(a) : b = rotateArray(a, k) \/ b = rotateArray(Reverse(a), k)

\* C11: no two faces of the sheet have the same up side, the same layer and the
\* same polygon up to winding direction and starting vertex
C11_NoDuplicateFaces ==
    \A i, j \in 1..Len(paper.faces) :
        i < j => ~(/\ paper.faces[i].up = paper.faces[j].up
                   /\ paper.faces[i].layer = paper.faces[j].layer
                   /\ SamePolygon(paper.faces[i].verts, paper.faces[j].verts))

\* two faces of the sheet cover the same polygon with the same side up and differ
\* in their layers alone
C11_Witness ==
    \E i, j \in 1..Len(paper.faces) :
        /\ i < j
        /\ paper.faces[i].up = paper.faces[j].up
        /\ paper.faces[i].layer # paper.faces[j].layer
        /\ SamePolygon(paper.faces[i].verts, paper.faces[j].verts)

\* twice the total area of a face list
RECURSIVE TotalArea2(_)
TotalArea2(faces) ==
    IF faces = <<>> THEN 0 ELSE polyArea2(Head(faces).verts) + TotalArea2(Tail(faces))

DiscardedArea2(f, line, side) ==
    LET a == ClippedArea2(f, line, side)
    IN IF a > 2 * MIN_FACE_AREA THEN 0 ELSE a

\* twice the area a build along the line discards from a face list
RECURSIVE LostArea2(_, _)
LostArea2(faces, line) ==
    IF faces = <<>> THEN 0
    ELSE DiscardedArea2(Head(faces), line, 1) + DiscardedArea2(Head(faces), line, 0 - 1)
            + LostArea2(Tail(faces), line)

C13_FlipBuilt ==
    (~Animating(flipRuntime) /\ Animating(flipRuntime)') =>
        /\ ~Locked
        /\ flipRuntime'.anim = buildFlipAnim(paper)
        /\ flipRuntime'.anim.progress = 0
        /\ flipRuntime'.anim.maxLayer = MaxLayerOf(paper.faces)

\* what commitFlip made of the faces: as many, with the ids they had, each with
\* its up side toggled, its layer counted down from the maxLayer of the build, and
\* outer true
C13_FlipCommitted ==
    ev.flip # <<>> =>
        LET c == ev.flip[1]
        IN /\ Len(c.after.faces) = Len(c.before.faces)
           /\ \A i \in 1..Len(c.before.faces) :
                 /\ c.after.faces[i].id = c.before.faces[i].id
                 /\ c.after.faces[i].up = toggleSide(c.before.faces[i].up)
                 /\ c.after.faces[i].up # c.before.faces[i].up
                 /\ c.after.faces[i].layer = c.anim.maxLayer - c.before.faces[i].layer
                 /\ c.after.faces[i].outer = TRUE

\* C13: a flip build always succeeds, and commitFlip keeps the number of faces and
\* their ids while it toggles up, sets layer to the build's maxLayer minus the old
\* layer and sets outer to true on every face
C13_FlipLaw == [](C13_FlipCommitted) /\ [][C13_FlipBuilt]_vars

\* a flip has just committed on a folded sheet that had a face with outer false
C13_Witness ==
    /\ ev.flip # <<>>
    /\ Len(ev.flip[1].before.faces) >= 2
    /\ \E i \in 1..Len(ev.flip[1].before.faces) :
          /\ ~ev.flip[1].before.faces[i].outer
          /\ ev.flip[1].before.faces[i].layer > 0

\* C14: two consecutive flips of a sheet that is not otherwise changed give every
\* face its vertex positions and its up side back, at any sheet rotation
C14_FlipRoundTrip ==
    ev.flip # <<>> =>
        \A i \in 1..Len(ev.flip[1].before) :
            /\ ev.flip[1].after[i].verts = ev.flip[1].before[i].verts
            /\ ev.flip[1].after[i].up = ev.flip[1].before[i].up

\* every mirroring of the two flips was exact: the divisions left no remainder
C14_Exact ==
    ev.flip # <<>> =>
        LET r == ev.flip[1].rotation
            Exact(faces) ==
                LET vs == AllVerts(faces)
                    xs == [i \in 1..Len(vs) |-> vs[i][1]]
                    ys == [i \in 1..Len(vs) |-> vs[i][2]]
                    sx == SeqMin(Tail(xs), Head(xs)) + SeqMax(Tail(xs), Head(xs))
                    sy == SeqMin(Tail(ys), Head(ys)) + SeqMax(Tail(ys), Head(ys))
                IN \A k \in 1..Len(vs) :
                      LET dot2x == (2 * vs[k][1] - sx) * (0 - r[1])
                                      + (2 * vs[k][2] - sy) * r[2]
                      IN /\ (dot2x * r[1]) % (r[3] * r[3]) = 0
                         /\ (dot2x * r[2]) % (r[3] * r[3]) = 0
        IN Exact(ev.flip[1].before) /\ Exact(ev.flip[1].once)

\* at the quarter turns the two flips do give the sheet back
C14_QuarterTurns ==
    (ev.flip # <<>> /\ ev.flip[1].rotation[3] = 1) =>
        \A i \in 1..Len(ev.flip[1].before) :
            ev.flip[1].after[i].verts = ev.flip[1].before[i].verts

\* the ids of a face list, and whether no two of its faces share one
FaceIds(faces) == {faces[i].id : i \in 1..Len(faces)}
DistinctIds(faces) ==
    \A i, j \in 1..Len(faces) : faces[i].id = faces[j].id => i = j

\* every id held anywhere in the program: the sheet, the snapshots, the pieces of
\* the fold in flight
IdsInUse ==
    FaceIds(paper.faces)
      \cup UNION {FaceIds(undoStack[i].faces) : i \in 1..Len(undoStack)}
      \cup (IF Animating(foldRuntime)
            THEN FaceIds(foldRuntime.anim.keepFaces \o foldRuntime.anim.movingFaces)
            ELSE {})

\* the sheet's ids are pairwise distinct and every id in use was handed out by the
\* counter
C16_IdsDistinct ==
    /\ DistinctIds(paper.faces)
    /\ \A id \in IdsInUse : FirstId <= id /\ id < nextFaceId

\* the faces a step constructs get ids from the counter's value before the step on,
\* below its value after the step, and no two the same
C16_FreshStep ==
    /\ nextFaceId' >= nextFaceId
    /\ ev'.reset = <<TRUE>> =>
          /\ Len(paper'.faces) = 1
          /\ paper'.faces[1].id >= nextFaceId /\ paper'.faces[1].id < nextFaceId'
    /\ ev'.buildIn # <<>> =>
          LET a == ev'.buildIn[1].result.anim
              pieces == a.keepFaces \o a.movingFaces
          IN /\ DistinctIds(pieces)
             /\ \A id \in FaceIds(pieces) : id >= nextFaceId /\ id < nextFaceId'
    /\ ev'.fold # <<>> =>
          LET c == ev'.fold[1]
              moved == {i \in 1..Len(c.after.faces) :
                           c.after.faces[i].id \notin FaceIds(c.anim.keepFaces)}
          IN /\ moved # {}
             /\ \A i \in moved :
                   /\ c.after.faces[i].id >= nextFaceId
                   /\ c.after.faces[i].id < nextFaceId'
                   /\ c.after.faces[i].id \notin FaceIds(c.anim.movingFaces)
                   /\ c.after.faces[i].id \notin FaceIds(c.before.faces)

\* C16: face ids are unique and never reused: the faces of the sheet have pairwise
\* distinct ids in every reachable state, and every face made by makeRectFace,
\* buildFoldAnim or commitFold gets an id greater than every id handed out before,
\* also after rejected builds, resets and undos
C16_FaceIds == [](C16_IdsDistinct) /\ [][C16_FreshStep]_vars

\* a fold commits on a sheet whose only snapshot is the commit's own, with ids that
\* show three were handed out before its build: by rejected builds, or by resets
\* and folds since undone
C16_Witness ==
    /\ ev.fold # <<>>
    /\ Len(undoStack) = 1
    /\ Len(paper.faces) = 2
    /\ \A i \in 1..Len(paper.faces) : paper.faces[i].id >= FirstId + 4

\* polyArea(piece) > MIN_FACE_AREA, the test of buildFoldAnim that keeps a piece,
\* with lengths in 1 / u of a pixel
KeptPiece(piece, u) == polyArea2(piece) > 2 * MIN_FACE_AREA * u * u

\* C17: clip complementarity: whenever neither clip of a polygon is discarded as a
\* sliver, the areas of the two clips add up to the area of the polygon, within the
\* area of a sliver
C17_ClipComplementarity ==
    ev.buildIn # <<>> =>
        LET c == ev.buildIn[1]
        IN (KeptPiece(c.pos, ClipUnit) /\ KeptPiece(c.neg, ClipUnit)) =>
              Abs(polyArea2(c.pos) + polyArea2(c.neg) - polyArea2(c.poly))
                 <= 2 * MIN_FACE_AREA * ClipUnit * ClipUnit

\* the edge loop of the two clips splits the area exactly: what is put out before
\* cleanupPoly adds up to the polygon
C17_BeforeCleanup ==
    ev.buildIn # <<>> =>
        LET c == ev.buildIn[1]
        IN polyArea2(c.outPos) + polyArea2(c.outNeg) = polyArea2(c.poly)

\* every intersection of the exploration is a point of the grid: the division of
\* lerp leaves no remainder
C17_Exact ==
    ev.buildIn # <<>> =>
        LET c == ev.buildIn[1]
            n == Len(c.poly)
        IN \A i \in 1..n :
              LET a == c.poly[i]
                  b == c.poly[(i % n) + 1]
                  da == signedDistanceToLine(a, c.line)
                  db == signedDistanceToLine(b, c.line)
              IN da # db => /\ ((b[1] - a[1]) * da) % Abs(da - db) = 0
                            /\ ((b[2] - a[2]) * da) % Abs(da - db) = 0

\* C18: dedup key stability: two faces with the same up and layer whose vertex lists
\* describe the same polygon up to winding direction and starting vertex have the
\* same faceKey, and dedupeFaces keeps only the first of them
C18_KeyStable ==
    ev.buildIn # <<>> =>
        LET c == ev.buildIn[1]
        IN (/\ c.face.up = c.variant.up
            /\ c.face.layer = c.variant.layer
            /\ SamePolygon(c.face.verts, c.variant.verts)) =>
              /\ c.keys[1] = c.keys[2]
              /\ c.deduped = <<c.face>>

\* the second face lists the vertices of a folded-over triangle in the opposite
\* direction and from another vertex, and is dropped
C18_Witness ==
    /\ ev.buildIn # <<>>
    /\ ev.buildIn[1].reversed
    /\ ev.buildIn[1].start = 2
    /\ Len(ev.buildIn[1].face.verts) = 3
    /\ ev.buildIn[1].face.up = "back"
    /\ ev.buildIn[1].variant.verts # ev.buildIn[1].face.verts
    /\ ev.buildIn[1].variant.id # ev.buildIn[1].face.id
    /\ SamePolygon(ev.buildIn[1].face.verts, ev.buildIn[1].variant.verts)
    /\ ev.buildIn[1].deduped = <<ev.buildIn[1].face>>

\* the rectangle [x0, x1] x [y0, y1], counter-clockwise from its smallest vertex
Rect(x0, x1, y0, y1) == << <<x0, y0>>, <<x1, y0>>, <<x1, y1>>, <<x0, y1>> >>

\* the face list is one face, and it covers the rectangle
CoversRect(faces, x0, x1, y0, y1) ==
    /\ Len(faces) = 1
    /\ SamePolygon(faces[1].verts, Rect(x0, x1, y0, y1))

\* the step folded the fresh 200 x 300 sheet centred at the origin along the line
\* through (0,0) with direction (0,1), moving the side of positive x: the side the
\* line's normal points to when foldSide is front, the other when it is back
MiddleFolded ==
    /\ ev.buildIn # <<>>
    /\ ev.buildIn[1].paper = makePaper(FirstId, 0, 0, MiddleW, MiddleH)
    /\ ev.buildIn[1].lineDirScreen = <<0, 1>>
    /\ ev.buildIn[1].hingeScreen = <<0, 0>>
    /\ ev.buildIn[1].foldSide * ev.buildIn[1].result.anim.lineLocal.normal[1] > 0

\* the build of the scenario succeeds, keeps the half of negative x and moves the
\* half of positive x
MiddleBuilt ==
    /\ ev.build = "built"
    /\ CoversRect(ev.buildIn[1].result.anim.keepFaces, 0 - 100, 0, 0 - 150, 150)
    /\ CoversRect(ev.buildIn[1].result.anim.movingFaces, 0, 100, 0 - 150, 150)

\* C19 as stated: the rectangle folded down the middle builds with keepFaces over
\* x in [-100,0] and movingFaces over x in [0,100]; after the commit two faces
\* remain, or one, and their total area is about 20000 (within one percent)
C19_MiddleFoldArea20000 ==
    MiddleFolded =>
        /\ MiddleBuilt
        /\ ev.fold # <<>>
        /\ Len(ev.fold[1].after.faces) \in {1, 2}
        /\ 100 * Abs(TotalArea2(ev.fold[1].after.faces) - 2 * 20000) <= 2 * 20000

\* C19: the rectangle folded down the middle builds with keepFaces over x in
\* [-100,0] and movingFaces over x in [0,100]; after the commit two faces remain,
\* the kept half (front, layer 0) and the moved half mirrored onto it (back, layer
\* 1), each of area 30000, 60000 together
C19_MiddleFold ==
    MiddleFolded =>
        /\ MiddleBuilt
        /\ ev.fold # <<>>
        /\ LET after == ev.fold[1].after.faces
           IN /\ Len(after) = 2
              /\ CoversRect(<<after[1]>>, 0 - 100, 0, 0 - 150, 150)
              /\ CoversRect(<<after[2]>>, 0 - 100, 0, 0 - 150, 150)
              /\ after[1].up = "front" /\ after[1].layer = 0
              /\ after[2].up = "back" /\ after[2].layer = 1
              /\ polyArea2(after[1].verts) = 2 * 30000
              /\ polyArea2(after[2].verts) = 2 * 30000
              /\ TotalArea2(after) = 2 * 60000

\* the scenario happened and its fold is committed
C19_Witness == MiddleFolded /\ ev.fold # <<>> /\ paper = ev.fold[1].after

\* the sheet is one rectangle of the given size centred at the local origin, front
\* up, layer 0, outer, not rotated and not scaled
IsFreshRect(p, w, h) ==
    /\ Len(p.faces) = 1
    /\ p.faces[1].verts = Rect(0 - (w \div 2), w \div 2, 0 - (h \div 2), h \div 2)
    /\ p.faces[1].up = "front"
    /\ p.faces[1].layer = 0
    /\ p.faces[1].outer
    /\ p.rot = 0
    /\ p.scale = 1

\* C20 as stated: a reset while idle leaves the single rectangle of the size the
\* sheet was created with, rot 0 and scale 1, whatever folds, flips and viewport or
\* aspect changes happened before
C20_ResetToCreatedSize ==
    ev.reset # <<>> => IsFreshRect(paper, InitialSize.w, InitialSize.h)

\* C20: a reset while idle leaves the single rectangle of the size computed from the
\* viewport and the aspect of the moment of the reset, which becomes the sheet's
\* base size; rot is 0 and scale 1, whatever folds and flips happened before; the
\* size is the one the sheet was created with when the viewport and the aspect are
\* those of its creation
C20_ResetToCurrentSize ==
    ev.reset # <<>> =>
        LET r == ev.reset[1]
            size == orientPaperSize(computePaperSize(r.view[1], r.view[2], r.aspect),
                                    r.view[1], r.view[2])
        IN /\ IsFreshRect(paper, size.w, size.h)
           /\ paper.baseW = size.w /\ paper.baseH = size.h
           /\ (r.view = StartView /\ r.aspect = A4_ASPECT) =>
                 IsFreshRect(paper, InitialSize.w, InitialSize.h)

\* a folded, turned sheet is reset after the viewport turned to landscape
C20_Witness ==
    /\ ev.reset # <<>>
    /\ Len(ev.reset[1].before.faces) > 1
    /\ ev.reset[1].before.rot # 0
    /\ ev.reset[1].view = <<1650, 990>>
    /\ ev.reset[1].aspect = A4_ASPECT
    /\ paper.baseW = 594 /\ paper.baseH = 420

\* an animation is in flight
InFlight == Animating(foldRuntime) \/ Animating(flipRuntime)

C21_PinchWitness ==
    /\ InFlight
    /\ Len(pointers) = 2
    /\ pinchLastMid # <<>>
    /\ pinchLastMid[1] # PinchMid(pointers)

\* the faces of a list without their ids
NoIds(faces) ==
    [i \in 1..Len(faces) |->
        [verts |-> faces[i].verts, up |-> faces[i].up, layer |-> faces[i].layer,
         outer |-> faces[i].outer]]

\* the pieces buildFoldAnim cuts of the faces along the animation's line
PiecesNow(faces, anim) ==
    BuildPieces(faces, 1, anim.lineLocal, anim.foldSide,
                [keepFaces |-> <<>>, movingFaces |-> <<>>, nextId |-> 0])

\* C22: no commit discards another commit: when a flip commits the sheet's faces
\* are the faces the animation captured at its build, and when a fold commits the
\* animation's pieces are the pieces of the sheet's faces as they are then
C22_CommitOnCapturedFaces ==
    /\ ev.flip # <<>> => ev.flip[1].before.faces = ev.flip[1].anim.originalFaces
    /\ ev.fold # <<>> =>
          \A now \in {PiecesNow(ev.fold[1].before.faces, ev.fold[1].anim)} :
              /\ NoIds(now.keepFaces) = NoIds(ev.fold[1].anim.keepFaces)
              /\ NoIds(now.movingFaces) = NoIds(ev.fold[1].anim.movingFaces)

\* C23: every face's layer is a non-negative integer in every reachable state: the
\* faces of the sheet and the faces of every snapshot an undo can restore
C23_LayersNonNegative ==
    /\ \A i \in 1..Len(paper.faces) : paper.faces[i].layer \in Nat
    /\ \A k \in 1..Len(undoStack) :
          \A i \in 1..Len(undoStack[k].faces) : undoStack[k].faces[i].layer \in Nat

\* C24: what an animation or a snapshot holds is not changed behind its back: from
\* one state to the next the faces of a fold animation that stays in flight
\* (keepFaces, movingFaces), the faces of a flip animation that stays in flight
\* (originalFaces) and the faces of every snapshot that stays on the undo stack are
\* the same, whatever the step assigns to the sheet's face objects
C24_NoAliasing ==
    [][/\ (Animating(foldRuntime) /\ Animating(foldRuntime')) =>
             /\ foldRuntime'.anim.keepFaces = foldRuntime.anim.keepFaces
             /\ foldRuntime'.anim.movingFaces = foldRuntime.anim.movingFaces
       /\ (Animating(flipRuntime) /\ Animating(flipRuntime')) =>
             flipRuntime'.anim.originalFaces = flipRuntime.anim.originalFaces
       /\ \A k \in 1..Len(undoStack) :
             k <= Len(undoStack') => undoStack'[k].faces = undoStack[k].faces]_vars

\* a flip has just been committed in place on a sheet whose state before it is on
\* the undo stack, while a fold animation is in flight
C24_Witness ==
    /\ heap # NoHeap
    /\ ev.flip # <<>>
    /\ undoStack # <<>>
    /\ Animating(foldRuntime)
    /\ \E i \in 1..Len(paper.faces) : paper.faces[i].up = "back"

\* the layer commitFold gives the piece of a painted item
CommitLayer(anim, it) ==
    IF it.moving
    THEN FoldedFace(anim.movingFaces[it.piece], anim, MaxLayerOf(anim.movingFaces), 0).layer
    ELSE anim.keepFaces[it.piece].layer

\* no moving piece is painted before a stationary piece
MovingOnTop(order) ==
    \A i, j \in 1..Len(order) : (order[i].moving /\ ~order[j].moving) => i > j

\* C25: in every frame of a fold animation the moving pieces are painted after all
\* stationary pieces, whichever side folds, and with the progress at 1 the pieces are
\* painted in ascending order of the layers they receive at the commit
C25_MovingPaintedOnTop ==
    /\ Animating(foldRuntime) =>
          \A order \in {PaintOrder(foldRuntime.anim)} : MovingOnTop(order)
    /\ ev.fold # <<>> =>
          \A order \in {PaintOrder(ev.fold[1].anim)} :
              /\ MovingOnTop(order)
              /\ \A i, j \in 1..Len(order) :
                    i < j => CommitLayer(ev.fold[1].anim, order[i])
                                <= CommitLayer(ev.fold[1].anim, order[j])

\* the same for folds of the front side only
C25_FrontPaintedOnTop ==
    /\ (Animating(foldRuntime) /\ foldRuntime.anim.foldSide = Front) =>
          \A order \in {PaintOrder(foldRuntime.anim)} : MovingOnTop(order)
    /\ (ev.fold # <<>> /\ ev.fold[1].anim.foldSide = Front) =>
          \A order \in {PaintOrder(ev.fold[1].anim)} :
              /\ MovingOnTop(order)
              /\ \A i, j \in 1..Len(order) :
                    i < j => CommitLayer(ev.fold[1].anim, order[i])
                                <= CommitLayer(ev.fold[1].anim, order[j])

\* the fold half of C26: at progress 1 every vertex of a moving piece is drawn where
\* commitFold puts it
C26_FoldLastFrame ==
    ev.fold # <<>> =>
       \A anim \in {ev.fold[1].anim} :
       \A i \in 1..Len(anim.movingFaces) :
       \A j \in 1..Len(anim.movingFaces[i].verts) :
          DrawnFoldVertex(anim.movingFaces[i].verts[j], anim)
             = FoldedFace(anim.movingFaces[i], anim, MaxLayerOf(anim.movingFaces), 0).verts[j]

\* C26: the last frame of an animation shows the committed result: at progress 1
\* every vertex of a moving piece of a fold, and every vertex of a flip whose captured
\* faces are the sheet's faces, is drawn at the local position the commit gives it
C26_LastFrameIsCommit ==
    /\ C26_FoldLastFrame
    /\ (ev.flip # <<>> /\ ev.flip[1].before.faces = ev.flip[1].anim.originalFaces) =>
          \A c \in {ev.flip[1]} :
          \A i \in 1..Len(c.anim.originalFaces) :
          \A j \in 1..Len(c.anim.originalFaces[i].verts) :
             DrawnFlipVertex(c.anim.originalFaces[i].verts[j]) = c.after.faces[i].verts[j]

\* C27: a fold request is handled in the next frame or never: a frame attempts a
\* build only if the fold signal is up in this frame (deviceFolded afterwards), was
\* down in the frame before (deviceFolded before) and no fold is animating; every
\* frame leaves manualFoldQueued false, whether it built, was rejected or did not
\* try; a fold starts only by the build of a frame; nothing but a frame writes
\* deviceFolded and nothing but a frame clears the request
C27_RequestAtMostOnce ==
    [][/\ IsTick(ev') =>
             /\ ~manualFoldQueued'
             /\ ev'.build # "none" =>
                   deviceFolded' /\ ~deviceFolded /\ ~Animating(foldRuntime)
             /\ manualFoldQueued => deviceFolded'
       /\ (~Animating(foldRuntime) /\ Animating(foldRuntime')) =>
             IsTick(ev') /\ ev'.build = "built"
       /\ ~IsTick(ev') =>
             /\ deviceFolded' = deviceFolded
             /\ manualFoldQueued => manualFoldQueued']_vars

\* a frame has just taken the signal while a fold was well under way: it built
\* nothing and no request is left
C27_Witness ==
    /\ IsTick(ev)
    /\ Animating(foldRuntime)
    /\ foldRuntime.anim.progress >= 2 * MaxDt
    /\ deviceFolded
    /\ ev.build = "none"
    /\ ~manualFoldQueued

\* a frame has just had a build rejected: no fold runs and no request is left
C27_RejectedWitness ==
    /\ IsTick(ev)
    /\ ev.build \notin {"none", "built"}
    /\ ~Animating(foldRuntime)
    /\ ~manualFoldQueued
    /\ deviceFolded

C29_MinFrames ==
    /\ ev.dt <= MaxDt
    /\ IsTick(ev) => ev.dt >= 0
    /\ ev.fold # <<>> => ev.buildIn[1] >= 14
    /\ ev.flip # <<>> => ev.buildIn[1] >= 16

\* a fold committed by exactly its 14th advancing frame, the last of them a frame
\* that came a second late
C29_Witness == ev.fold # <<>> /\ ev.buildIn[1] = 14 /\ ev.fold[1] = 1000

\* a flip committed by exactly its 16th advancing frame
C29_FlipWitness == ev.flip # <<>> /\ ev.buildIn[1] = 16 /\ ev.flip[1] = 1000

\* onPointerMove takes its last branch and moves the sheet by dragOffset
DragHandled ==
    /\ ~Locked
    /\ dragOffset # <<>>
    /\ ~(Len(pointers) = 2 /\ pinchLastMid # <<>>)

\* C30: a drag never makes the sheet jump: when a pointermove that is handled as a
\* drag takes a pointer to a new position, the pointer is afterwards as far from the
\* sheet's position as it was at its own pointerdown, however many pointers are down
C30_DragNeverJumps ==
    [][\A i \in 1..Len(pointers) :
          (/\ Len(pointers') = Len(pointers)
           /\ pointers'[i].id = pointers[i].id
           /\ pointers'[i].pos # pointers[i].pos
           /\ DragHandled)
             => sub2(pointers'[i].pos, paper'.pos) = pointers[i].id[2]]_vars

====
